---- MODULE Spec2Model ----
(***************************************************************************)
(* Model of the Kafka transport core of faust                              *)
(* (src/faust/transport/drivers/aiokafka.py): the consumer thread's commit *)
(* path and liveness watchdog, the rebalance listener, topic creation with *)
(* stampede suppression, and the transactional producer registry.          *)
(*                                                                         *)
(* The module holds one state machine per subsystem; every subsystem has   *)
(* its own initial predicate and next-state relation over the shared       *)
(* variable tuple and leaves the other subsystems' variables unchanged.    *)
(***************************************************************************)
EXTENDS Integers, Sequences, FiniteSets, TLC

(***************************************************************************)
(* Bounds of the model.                                                    *)
(***************************************************************************)
\* last value of the monotonic clock
MaxTime == 2
\* number of commit() calls followed
NumCommits == 1
\* number of on_partitions_revoked callbacks followed
MaxRevokes == 2
\* last generation of the consumer group
MaxGeneration == 2
\* number of create_topic calls followed
NumCreates == 2
\* number of calls of transactional operations followed
NumTxnCalls == 3
NumGetmany == 2
MaxCloses == 2
NumSpans == 2
\* largest broker_session_timeout and broker_request_timeout, in seconds
MaxBrokerTimeout == 3
\* largest retention, in milliseconds
MaxRetention == 2
\* number of messages put on the thread-isolated producer's queue
NumMessages == 2
MaxFinishCalls == 2
\* number of _shutdown_thread calls followed
MaxShutdowns == 2
\* largest configured timeout, in seconds
MaxTimeout == 2

\* Python's None, for optional times and offsets (all of which are >= 0)
None == 0 - 1

Times == 0..MaxTime
Timeouts == 1..MaxTimeout

Topics == {"t"}
PartitionIds == {0, 1}
\* faust.types.TP: (topic, partition), equal by field
TPs == [topic : Topics, partition : PartitionIds]
Offsets == {50, 100}

TP(topic, partition) == [topic |-> topic, partition |-> partition]

\* the mappings tp -> offset a caller can hand to commit()
OffsetMaps == UNION {[S -> Offsets] : S \in SUBSET TPs}

VARIABLES
    \* ---- consumer thread -------------------------------------------------
    clock,                  \* time.monotonic()
    consumer_started,       \* AIOKafkaConsumerThread._consumer is not None
    time_started,           \* AIOKafkaConsumerThread.time_started
    conf,                   \* app.conf timeouts read in __post_init__
    assigned,               \* consumer.assignment()
    tp_last_committed_at,   \* AIOKafkaConsumerThread.tp_last_committed_at
    commit_calls,           \* the commit() calls: position, locals, outcome
    crashed,                \* the thread service has been crashed
    verify_log,             \* the watchdog call of the last step, if it was one
    \* ---- rebalance listener ----------------------------------------------
    generation,             \* consumer._coordinator.generation
    consumer_generation_id, \* app.consumer_generation_id
    rebalance_start_calls,  \* number of app.on_rebalance_start() calls
    revoke_awaitables,      \* what on_partitions_revoked returned, in order
    worker_revoked_calls,   \* number of runs of the worker's revoke handler
    assigned_call,          \* the most recent on_partitions_assigned callback
    delivered,              \* the message converted in the last step, if any
    \* ---- topic administrator ---------------------------------------------
    topic_waiters,          \* Transport._topic_waiters: name -> wrapper
    create_calls,           \* the create_topic calls
    producer_started,       \* Producer._producer is not None
    stopping,               \* owner.should_stop of the consumer and producer
    cluster_topics,         \* client.cluster.topics()
    broker_topics,          \* the topics that exist on the broker
    \* ---- transactional producers -----------------------------------------
    transaction_producers,  \* Producer._transaction_producers: id -> producer
    trn_locks,              \* Producer._trn_locks: id -> lock
    lock_holder,            \* per lock, the call that holds it
    producers,              \* the transactional AIOKafkaProducer objects
    txn_calls,              \* the calls of the transactional operations
    flow_active,            \* Consumer.flow_active
    consumer_closed,        \* AIOKafkaConsumer._closed
    fetcher_closed,         \* Fetcher._closed
    fetch_context,          \* the calls inside subscriptions.fetch_context()
    closes_scheduled,       \* the close coroutines handed to app.loop
    getmany_calls,          \* the getmany calls
    pending_rebalancing_spans, \* AIOKafkaConsumerThread._pending_rebalancing_spans
    spans,                  \* the tracing spans the thread started
    finished,               \* the spans in the order of their _real_finish
    consumer_settings,      \* what _create_consumer made of app.conf
    config_call,            \* the arguments and the config of a CreateTopics request
    threaded,               \* ThreadedProducer: its flags and its _producer
    event_queue,            \* ThreadedProducer.event_queue
    messages,               \* what became of each message put on the queue
    thread_stops,           \* the on_thread_stop coroutines on the thread loop
    push_task,              \* ThreadedProducer._push_events_task
    flush_calls             \* the flush() calls from outside on_thread_stop

commitVars == <<clock, consumer_started, time_started, conf, assigned,
                tp_last_committed_at, commit_calls, crashed, verify_log>>

rebalanceVars == <<generation, consumer_generation_id, rebalance_start_calls,
                   revoke_awaitables, worker_revoked_calls, assigned_call,
                   delivered>>

topicVars == <<topic_waiters, create_calls, producer_started, stopping,
               cluster_topics, broker_topics>>

txnVars == <<transaction_producers, trn_locks, lock_holder, producers,
             txn_calls>>

fetchVars == <<flow_active, consumer_closed, fetcher_closed, fetch_context,
              closes_scheduled, getmany_calls>>

spanVars == <<pending_rebalancing_spans, spans, finished>>

threadVars == <<threaded, event_queue, messages, thread_stops, push_task,
                flush_calls>>

vars == <<commitVars, rebalanceVars, topicVars, txnVars, fetchVars, spanVars,
          consumer_settings, config_call, threadVars>>

notCommitVars == <<rebalanceVars, topicVars, txnVars, fetchVars, spanVars,
                   consumer_settings, config_call, threadVars>>
\* the variables the rebalance listener does not touch
notRebalanceVars == <<clock, time_started, conf, assigned, tp_last_committed_at,
                      commit_calls, crashed, verify_log, topicVars, txnVars,
                      fetchVars, spanVars, consumer_settings, config_call, threadVars>>
\* the variables topic creation does not touch
notTopicVars == <<clock, time_started, conf, assigned, tp_last_committed_at,
                  commit_calls, crashed, verify_log, rebalanceVars, fetchVars,
                  spanVars, consumer_settings, config_call, threadVars>>
\* the variables the transactional operations do not touch
notTxnVars == <<commitVars, rebalanceVars, topic_waiters, create_calls,
                stopping, cluster_topics, broker_topics, fetchVars, spanVars,
                consumer_settings, config_call, threadVars>>
\* the variables the fetch path does not touch
notFetchVars == <<clock, time_started, conf, assigned, tp_last_committed_at,
                  commit_calls, crashed, verify_log, rebalanceVars, topicVars,
                  txnVars, spanVars, consumer_settings, config_call, threadVars>>
\* the variables the tracing spans do not touch
notSpanVars == <<commitVars, rebalanceVars, topicVars, txnVars, fetchVars,
                 consumer_settings, config_call, threadVars>>
\* the variables the thread-isolated producer does not touch
notThreadVars == <<commitVars, rebalanceVars, topicVars, txnVars, fetchVars,
                   spanVars, consumer_settings, config_call>>
\* the variables the config of a CreateTopics request does not touch
notConfigVars == <<commitVars, rebalanceVars, topicVars, txnVars, fetchVars,
                   spanVars, consumer_settings, threadVars>>

(***************************************************************************)
(* Exceptions of the broker commit, as far as _commit tells them apart:    *)
(* the class, and whether str(exc) contains "already rebalanced".          *)
(***************************************************************************)
NoExc == [cls |-> "none", already_rebalanced |-> FALSE]
ExcClasses == {"CommitFailedError", "IllegalStateError", "Exception"}
BrokerExceptions == [cls : ExcClasses, already_rebalanced : BOOLEAN]
BrokerOutcomes == {NoExc} \cup BrokerExceptions

EmptyMap == <<>>

CallIds == 1..NumCommits

IdleCall == [pc |-> "idle", offsets |-> EmptyMap, now |-> None,
             payload |-> EmptyMap, exc |-> NoExc, result |-> FALSE,
             crashed_with |-> NoExc, raised |-> "none"]

(***************************************************************************)
(* Type shim.                                                              *)
(***************************************************************************)
\* ensure_aiokafka_TP: a _TopicPartition built from the fields of the TP
ensure_aiokafka_TP(tp) == [topic |-> tp.topic, partition |-> tp.partition]

OffsetAndMetadata(offset, metadata) == [offset |-> offset, metadata |-> metadata]

(***************************************************************************)
(* _commit, the synchronous part before the RPC (lines 717-727).           *)
(***************************************************************************)
\* mutant: the submitted offsets are sent unfiltered
CommitableOffsetsUnfiltered(offsets, assignment) == offsets

\* commitable_offsets: the submitted entries whose tp is in assignment()
CommitableOffsets(offsets, assignment) ==
    [tp \in {t \in DOMAIN offsets : t \in assignment} |-> offsets[tp]]

\* aiokafka_offsets: {ensure_aiokafka_TP(tp): OffsetAndMetadata(offset, "")}
AiokafkaOffsets(commitable) ==
    [atp \in {ensure_aiokafka_TP(tp) : tp \in DOMAIN commitable} |->
        LET tp == CHOOSE t \in DOMAIN commitable : ensure_aiokafka_TP(t) = atp
        IN  OffsetAndMetadata(commitable[tp], "")]

\* mutant: the timestamps are not touched before the RPC is issued
LastCommittedNotUpdated(last, commitable, now) == last

\* mutant: every partition is stamped, committed or filtered out
LastCommittedStampsAll(last, commitable, now) == [tp \in TPs |-> now]

\* tp_last_committed_at.update({tp: now for tp in commitable_offsets})
LastCommittedUpdate(last, commitable, now) ==
    [tp \in TPs |-> IF tp \in DOMAIN commitable THEN now ELSE last[tp]]

(***************************************************************************)
(* _commit, the except clauses (lines 729-747): what the call returns and  *)
(* the exception it crashes the service with (NoExc: no crash).            *)
(***************************************************************************)
\* mutant: every CommitFailedError is taken for a rebalance
CommitHandlerAllCommitFailedBenign(exc) ==
    IF exc = NoExc
    THEN [result |-> TRUE, crash |-> NoExc]
    ELSE IF exc.cls = "CommitFailedError"
         THEN [result |-> FALSE, crash |-> NoExc]
         ELSE [result |-> FALSE, crash |-> exc]

CommitHandler(exc) ==
    IF exc = NoExc
    THEN [result |-> TRUE, crash |-> NoExc]
    ELSE IF exc.cls = "CommitFailedError"
         THEN IF exc.already_rebalanced
              THEN [result |-> FALSE, crash |-> NoExc]
              ELSE [result |-> FALSE, crash |-> exc]
         ELSE IF exc.cls = "IllegalStateError"
              THEN [result |-> FALSE, crash |-> exc]
              ELSE [result |-> FALSE, crash |-> exc]

(***************************************************************************)
(* Liveness watchdog (lines 749-871).  A call reads the fetcher's view of  *)
(* the partition, the monitor and the topic's acks flag; these come from   *)
(* collaborators and are the record st:                                    *)
(*   assignment  "none" | "inactive" | "active"   subscription.assignment  *)
(*   has_state   assignment.state_value(tp) is not None                    *)
(*   timestamp   tp_state.timestamp, milliseconds (0 or None: no poll yet) *)
(*   highwater, position   tp_state.highwater, tp_state.position           *)
(*   has_acks    app.topics.acks_enabled_for(tp.topic)                     *)
(*   monitor     app.monitor is not None                                   *)
(*   inbound     monitor.stream_inbound_time.get(tp)                       *)
(***************************************************************************)
Falsy(x) == x = None \/ x = 0

\* mutant: a timeout is passed only when it is exceeded
TimedOutStrict(elapsed, timeout) == elapsed > timeout

\* the guard of every diagnostic: `secs_since_... >= self.tp_..._timeout_secs`
TimedOut(elapsed, timeout) == elapsed >= timeout

\* mutant: only a missing assignment counts, an inactive one is checked on
NoActiveAssignmentOnlyMissing(assignment) == assignment = "none"

\* `not assignment or not assignment.active` (line 844)
NoActiveAssignment(assignment) == assignment # "active"

\* _verify_aiokafka_event_path: the error logged ("none": nothing) and the
\* value returned
VerifyAiokafkaEventPath(now, st, started_at, cf) ==
    LET secs_since_started == now - started_at
        fetch_timeout == cf.stream_processing_timeout
        has_poll == st.has_state /\ ~Falsy(st.timestamp)
    IN  IF NoActiveAssignment(st.assignment)
        THEN [code |-> "NO_ACTIVE_PARTITIONS", ret |-> TRUE]
        ELSE IF ~has_poll
        THEN [code |-> IF TimedOut(secs_since_started, fetch_timeout)
                       THEN "NO_FETCH_SINCE_START" ELSE "none",
              ret |-> TRUE]
        \* now - timestamp / 1000 >= timeout, in milliseconds
        ELSE IF TimedOut(now * 1000 - st.timestamp, fetch_timeout * 1000)
        THEN [code |-> "NO_RECENT_FETCH", ret |-> TRUE]
        ELSE [code |-> "none", ret |-> FALSE]

\* verify_event_path after the fetch checks passed (lines 755-830)
VerifyStreamAndCommit(now, st, started_at, cf, last_commit) ==
    LET secs_since_started == now - started_at
        stream_timeout == cf.stream_processing_timeout
        commit_timeout == cf.broker_commit_livelock_soft_timeout
    IN  IF ~st.monitor THEN "none"
        ELSE IF ~st.has_state THEN "raise AttributeError"
        ELSE IF st.highwater = None
        THEN IF TimedOut(secs_since_started, stream_timeout)
             THEN "NO_HIGHWATER_SINCE_START" ELSE "none"
        ELSE IF ~(st.has_acks /\ st.position # None) THEN "none"
        ELSE IF ~(st.highwater > st.position) THEN "none"
        ELSE IF st.inbound = None
        THEN IF TimedOut(secs_since_started, stream_timeout)
             THEN "STREAM_IDLE_SINCE_START" ELSE "none"
        ELSE IF TimedOut(now - st.inbound, stream_timeout) THEN "STREAM_IDLE"
        ELSE IF last_commit = None
        THEN IF TimedOut(secs_since_started, commit_timeout)
             THEN "NO_COMMIT_SINCE_START" ELSE "none"
        ELSE IF TimedOut(now - last_commit, commit_timeout)
        THEN "NO_RECENT_COMMIT" ELSE "none"

\* verify_event_path: the error logged, or the exception raised
VerifyEventPathCode(now, st, started_at, cf, last_commit) ==
    LET fetch == VerifyAiokafkaEventPath(now, st, started_at, cf)
    IN  IF fetch.ret THEN fetch.code
        ELSE VerifyStreamAndCommit(now, st, started_at, cf, last_commit)

CommitCodes == {"NO_COMMIT_SINCE_START", "NO_RECENT_COMMIT"}
StreamCodes == {"STREAM_IDLE_SINCE_START", "STREAM_IDLE"}

\* a message logged without explanation block
NoDetail == [setting |-> "none", current_value |-> None, causes |-> <<>>]

\* _log_slow_processing_stream (lines 872-883)
LogSlowProcessingStream(cf) ==
    [setting |-> "stream_processing_timeout",
     current_value |-> cf.stream_processing_timeout,
     causes |-> <<"SLOW_PROCESSING_CAUSE_STREAM", "SLOW_PROCESSING_CAUSE_AGENT">>]

\* mutant: the commit diagnostics are explained like the stream diagnostics
LogSlowProcessingCommitAsStream(cf) == LogSlowProcessingStream(cf)

\* _log_slow_processing_commit (lines 885-893)
LogSlowProcessingCommit(cf) ==
    [setting |-> "broker_commit_livelock_soft_timeout",
     current_value |-> cf.broker_commit_livelock_soft_timeout,
     causes |-> <<"SLOW_PROCESSING_CAUSE_COMMIT">>]

\* the setting, its value and the causes that the message of a diagnostic
\* names (lines 896-919)
Detail(code, cf) ==
    IF code \in StreamCodes THEN LogSlowProcessingStream(cf)
    ELSE IF code \in CommitCodes THEN LogSlowProcessingCommit(cf)
    ELSE NoDetail

\* what the watchdog reads of the fetcher and the stream runtime when the
\* subscription has no assignment, or one that is not active
NoAssignment ==
    [assignment |-> "none", has_state |-> FALSE, timestamp |-> None,
     highwater |-> None, position |-> None, has_acks |-> FALSE,
     monitor |-> FALSE, inbound |-> None]

\* verify_log when the last step was no watchdog call
NoVerify == [ran |-> FALSE, entry |-> "none", tp |-> TP("t", 0),
             st |-> NoAssignment, code |-> "none", detail |-> NoDetail]

\* the fetcher states of a partition that is polled and has unprocessed,
\* acknowledged records: fetching and the stream are healthy at time now
HealthyFetchStates(now) ==
    {[assignment |-> "active", has_state |-> TRUE, timestamp |-> now * 1000 + 1,
      highwater |-> 100, position |-> 50, has_acks |-> TRUE, monitor |-> TRUE,
      inbound |-> now]}

(***************************************************************************)
(* Consumer thread: actions.  A call record holds the call's argument, its *)
(* locals (now, the payload handed to the broker) and its outcome.         *)
(***************************************************************************)
\* app.conf: the settings the driver reads, with app.client_only and
\* consumer.in_transaction, the two flags consumer construction reads
DefaultConf == [stream_processing_timeout |-> MaxTimeout,
                broker_commit_livelock_soft_timeout |-> 1,
                topic_allow_declare |-> TRUE,
                broker_session_timeout |-> 1,
                broker_request_timeout |-> MaxBrokerTimeout,
                client_only |-> FALSE,
                in_transaction |-> FALSE]

\* self._consumer before on_start
NoConsumer == [outcome |-> "none"]

\* mutant: equal timeouts are rejected as well
SessionExceedsOrEquals(session_timeout, request_timeout) ==
    session_timeout >= request_timeout

\* line 525
SessionExceeds(session_timeout, request_timeout) ==
    session_timeout > request_timeout

\* int(seconds * 1000.0)
Millis(seconds) == seconds * 1000

\* _create_worker_consumer (lines 504-559): the keyword arguments that
\* depend on the timeouts and the transaction flag
CreateWorkerConsumer(cf) ==
    IF SessionExceeds(cf.broker_session_timeout, cf.broker_request_timeout)
    THEN [outcome |-> "ImproperlyConfigured"]
    ELSE [outcome |-> "created",
          kwargs |-> [enable_auto_commit |-> FALSE,
                      isolation_level |-> IF cf.in_transaction
                                          THEN "read_committed"
                                          ELSE "read_uncommitted",
                      request_timeout_ms |-> Millis(cf.broker_request_timeout),
                      session_timeout_ms |-> Millis(cf.broker_session_timeout)]]

\* _create_client_consumer (lines 561-579): no session timeout and no
\* isolation level are passed
CreateClientConsumer(cf) ==
    [outcome |-> "created",
     kwargs |-> [enable_auto_commit |-> TRUE,
                 request_timeout_ms |-> Millis(cf.broker_request_timeout)]]

\* _create_consumer (lines 495-502)
CreateConsumer(cf) ==
    IF cf.client_only THEN CreateClientConsumer(cf)
    ELSE CreateWorkerConsumer(cf)

CreateInit ==
    /\ consumer_settings = NoConsumer
    /\ config_call = [pc |-> "idle"]

CommitInit ==
    /\ clock = 0
    /\ consumer_started = FALSE
    /\ time_started = None
    /\ conf = DefaultConf
    /\ assigned = {}
    /\ tp_last_committed_at = [tp \in TPs |-> None]
    /\ commit_calls = [c \in CallIds |-> IdleCall]
    /\ crashed = FALSE
    /\ verify_log = NoVerify

\* time passes
Tick ==
    /\ clock < MaxTime
    /\ clock' = clock + 1
    /\ verify_log' = NoVerify
    /\ UNCHANGED <<consumer_started, time_started, conf, assigned,
                   tp_last_committed_at, commit_calls, crashed>>
    /\ UNCHANGED notCommitVars

\* AIOKafkaConsumerThread.on_start
ConsumerOnStart ==
    /\ ~consumer_started
    /\ consumer_settings' = CreateConsumer(conf)
    /\ IF consumer_settings'.outcome = "created"
       THEN /\ consumer_started' = TRUE
            /\ time_started' = clock
            /\ verify_log' = NoVerify
       ELSE \* _create_consumer raised: self._consumer stays None
            UNCHANGED <<consumer_started, time_started, verify_log>>
    /\ UNCHANGED <<clock, conf, assigned, tp_last_committed_at, commit_calls,
                   crashed>>
    /\ UNCHANGED <<rebalanceVars, topicVars, txnVars, fetchVars, spanVars,
                   config_call, threadVars>>

\* the group coordinator hands the consumer another assignment
Rebalance(new_assignment) ==
    /\ consumer_started
    /\ new_assignment # assigned
    /\ assigned' = new_assignment
    /\ verify_log' = NoVerify
    /\ UNCHANGED <<clock, consumer_started, time_started, conf,
                   tp_last_committed_at, commit_calls, crashed>>
    /\ UNCHANGED notCommitVars

\* commit(offsets): the call is handed to the consumer thread (call_thread)
Commit(c, offsets) ==
    /\ commit_calls[c].pc = "idle"
    /\ \A d \in CallIds : d < c => commit_calls[d].pc # "idle"
    /\ commit_calls' = [commit_calls EXCEPT ![c] =
                            [IdleCall EXCEPT !.pc = "queued", !.offsets = offsets]]
    /\ verify_log' = NoVerify
    /\ UNCHANGED <<clock, consumer_started, time_started, conf, assigned,
                   tp_last_committed_at, crashed>>
    /\ UNCHANGED notCommitVars

\* _commit up to the await of consumer.commit (lines 717-728)
CommitRun(c) ==
    /\ commit_calls[c].pc = "queued"
    /\ IF ~consumer_started
       THEN \* _ensure_consumer raises
            /\ commit_calls' = [commit_calls EXCEPT ![c] =
                    [IdleCall EXCEPT !.pc = "raised",
                                     !.raised = "ConsumerNotStarted"]]
            /\ UNCHANGED tp_last_committed_at
       ELSE LET now == clock
                commitable_offsets ==
                    CommitableOffsets(commit_calls[c].offsets, assigned)
            IN  /\ tp_last_committed_at' =
                       LastCommittedUpdate(tp_last_committed_at,
                                           commitable_offsets, now)
                /\ commit_calls' = [commit_calls EXCEPT ![c].pc = "rpc",
                        ![c].now = now,
                        ![c].payload = AiokafkaOffsets(commitable_offsets)]
    /\ verify_log' = NoVerify
    /\ UNCHANGED <<clock, consumer_started, time_started, conf, assigned,
                   crashed>>
    /\ UNCHANGED notCommitVars

\* consumer.commit returns or raises; the except clauses run (lines 728-747)
CommitReturn(c, exc) ==
    /\ commit_calls[c].pc = "rpc"
    /\ LET h == CommitHandler(exc)
       IN  /\ commit_calls' = [commit_calls EXCEPT ![c].pc = "done",
                   ![c].exc = exc, ![c].result = h.result,
                   ![c].crashed_with = h.crash]
           /\ crashed' = (crashed \/ h.crash # NoExc)
    /\ verify_log' = NoVerify
    /\ UNCHANGED <<clock, consumer_started, time_started, conf, assigned,
                   tp_last_committed_at>>
    /\ UNCHANGED notCommitVars

\* mutant: the consumer is handed out whether or not it was created
EnsureConsumerNeverRaises(started) == FALSE

\* _ensure_consumer (lines 987-990): raises ConsumerNotStarted while
\* self._consumer is None
EnsureConsumerRaises(started) == ~started

\* the periodic tick calls verify_event_path(now, tp)
VerifyEventPath(tp, st) ==
    /\ LET code == IF EnsureConsumerRaises(consumer_started)
                   THEN "raise ConsumerNotStarted"
                   ELSE VerifyEventPathCode(clock, st, time_started, conf,
                                            tp_last_committed_at[tp])
       IN  verify_log' =
             [ran |-> TRUE, entry |-> "verify_event_path", tp |-> tp,
              st |-> st, code |-> code, detail |-> Detail(code, conf)]
    /\ UNCHANGED <<clock, consumer_started, time_started, conf, assigned,
                   tp_last_committed_at, commit_calls, crashed>>
    /\ UNCHANGED notCommitVars

\* mutant: the recovery entry goes on to the highwater check
VerifyRecoveryEventPathWithHighwater(now, st, started_at, cf) ==
    LET fetch == VerifyAiokafkaEventPath(now, st, started_at, cf)
    IN  IF fetch.ret THEN fetch.code
        ELSE IF st.monitor /\ st.highwater = None
                 /\ TimedOut(now - started_at, cf.stream_processing_timeout)
        THEN "NO_HIGHWATER_SINCE_START"
        ELSE "none"

\* verify_recovery_event_path: the error logged; the value returned by
\* _verify_aiokafka_event_path is dropped (line 833)
VerifyRecoveryEventPathCode(now, st, started_at, cf) ==
    VerifyAiokafkaEventPath(now, st, started_at, cf).code

\* verify_recovery_event_path (lines 832-833)
VerifyRecoveryEventPath(tp, st) ==
    /\ LET code == IF EnsureConsumerRaises(consumer_started)
                   THEN "raise ConsumerNotStarted"
                   ELSE VerifyRecoveryEventPathCode(clock, st, time_started,
                                                    conf)
       IN  verify_log' =
             [ran |-> TRUE, entry |-> "verify_recovery_event_path", tp |-> tp,
              st |-> st, code |-> code, detail |-> Detail(code, conf)]
    /\ UNCHANGED <<clock, consumer_started, time_started, conf, assigned,
                   tp_last_committed_at, commit_calls, crashed>>
    /\ UNCHANGED notCommitVars

\* the poll timestamps (milliseconds), highwaters, positions and inbound
\* times the watchdog can find at time now
PollTimestamps(now) == {None} \cup {t * 1000 + 1 : t \in 0..now}
Highwaters == {None, 100}
Positions == {None, 50, 100}
InboundTimes(now) == {None} \cup (0..now)

\* what the watchdog can read of the fetcher and the stream runtime at time
\* now: no assignment, an assignment that is not active any more and still
\* holds the state of the partition, an assignment without the partition, or
\* the state of the partition
FetchStates(now) ==
    {NoAssignment}
      \cup [assignment : {"inactive"}, has_state : {TRUE},
            timestamp : PollTimestamps(now), highwater : Highwaters,
            position : {50}, has_acks : {TRUE}, monitor : {TRUE},
            inbound : {None}]
      \cup {[NoAssignment EXCEPT !.assignment = "active", !.monitor = m] :
                m \in BOOLEAN}
      \cup [assignment : {"active"}, has_state : {TRUE},
            timestamp : PollTimestamps(now), highwater : Highwaters,
            position : Positions, has_acks : BOOLEAN, monitor : BOOLEAN,
            inbound : InboundTimes(now)]

\* the watchdog as a function of what it reads: the consumer thread at any
\* time of its life, each partition committed last at some time since the
\* start or never
WatchdogInit ==
    /\ clock \in Times
    /\ consumer_started \in BOOLEAN
    /\ time_started \in IF consumer_started THEN 0..clock ELSE {None}
    /\ conf = DefaultConf
    /\ assigned = {}
    /\ \E at \in IF consumer_started THEN {None} \cup (time_started..clock)
                  ELSE {None} :
          tp_last_committed_at = [tp \in TPs |->
                                    IF tp.partition = 0 THEN at ELSE None]
    /\ commit_calls = [c \in CallIds |-> IdleCall]
    /\ crashed = FALSE
    /\ verify_log = NoVerify

(***************************************************************************)
(* Rebalance listener (lines 186-209) and Consumer._to_message (259-278).  *)
(***************************************************************************)
\* OffsetCommitRequest.DEFAULT_GENERATION_ID: the generation is not known
DEFAULT_GENERATION_ID == 0 - 1

Generations == 1..MaxGeneration

\* ensure_TPset: the set of TP built from the broker's _TopicPartitions
ensure_TPset(tps) == {TP(atp.topic, atp.partition) : atp \in tps}

NoAssignedCall == [ran |-> FALSE, assigned |-> {}, generation |-> 0,
                   worker_generation |-> 0]

NoMessage == [ran |-> FALSE]

\* the records the fetcher hands over: offset and timestamp in milliseconds
RecordTimestamps == {None, 1500}

RebalanceInit ==
    /\ generation = DEFAULT_GENERATION_ID
    /\ consumer_generation_id = 0
    /\ rebalance_start_calls = 0
    /\ revoke_awaitables = <<>>
    /\ worker_revoked_calls = 0
    /\ assigned_call = NoAssignedCall
    /\ delivered = NoMessage

\* the coordinator rejoins the group: the generation is unknown again
CoordinatorRejoin ==
    /\ consumer_started
    /\ generation # DEFAULT_GENERATION_ID
    /\ generation' = DEFAULT_GENERATION_ID
    /\ delivered' = NoMessage
    /\ UNCHANGED <<consumer_started, consumer_generation_id,
                   rebalance_start_calls, revoke_awaitables,
                   worker_revoked_calls, assigned_call>>
    /\ UNCHANGED notRebalanceVars

\* the coordinator joined: the group's next generation becomes known
CoordinatorJoined(g) ==
    /\ consumer_started
    /\ generation = DEFAULT_GENERATION_ID
    /\ generation' = g
    /\ delivered' = NoMessage
    /\ UNCHANGED <<consumer_started, consumer_generation_id,
                   rebalance_start_calls, revoke_awaitables,
                   worker_revoked_calls, assigned_call>>
    /\ UNCHANGED notRebalanceVars

\* mutant: on_rebalance_start is left to the body of the returned coroutine
RebalanceStartsNotInPrologue(n) == n

\* on_rebalance_start calls once the synchronous part of
\* ConsumerRebalanceListener.on_partitions_revoked has run (line 198)
RebalanceStartsAfterPrologue(n) == n + 1

\* ConsumerRebalanceListener.on_partitions_revoked (lines 192-202): the call
\* itself; what it returns is a coroutine that has not started to run
ListenerRevoked(revoked) ==
    /\ consumer_started
    /\ Len(revoke_awaitables) < MaxRevokes
    /\ rebalance_start_calls' = RebalanceStartsAfterPrologue(rebalance_start_calls)
    /\ revoke_awaitables' = Append(revoke_awaitables,
            [revoked |-> ensure_TPset(revoked), state |-> "returned"])
    /\ delivered' = NoMessage
    /\ UNCHANGED <<consumer_started, generation, consumer_generation_id,
                   worker_revoked_calls, assigned_call>>
    /\ UNCHANGED notRebalanceVars

\* the caller awaits the returned coroutine: the worker's revoke handler runs
RevokeAwaited(i) ==
    /\ i \in 1..Len(revoke_awaitables)
    /\ revoke_awaitables[i].state = "returned"
    /\ revoke_awaitables' = [revoke_awaitables EXCEPT ![i].state = "awaited"]
    /\ worker_revoked_calls' = worker_revoked_calls + 1
    /\ delivered' = NoMessage
    /\ UNCHANGED <<consumer_started, generation, consumer_generation_id,
                   rebalance_start_calls, assigned_call>>
    /\ UNCHANGED notRebalanceVars

\* the caller drops the returned coroutine without awaiting it
RevokeDiscarded(i) ==
    /\ i \in 1..Len(revoke_awaitables)
    /\ revoke_awaitables[i].state = "returned"
    /\ revoke_awaitables' = [revoke_awaitables EXCEPT ![i].state = "discarded"]
    /\ delivered' = NoMessage
    /\ UNCHANGED <<consumer_started, generation, consumer_generation_id,
                   rebalance_start_calls, worker_revoked_calls, assigned_call>>
    /\ UNCHANGED notRebalanceVars

\* app.consumer_generation_id as the worker's assigned handler finds it
\* (line 208 runs before line 209)
WorkerGenerationAtHandler(old, gen) == gen

\* ConsumerRebalanceListener.on_partitions_assigned (lines 204-209)
ListenerAssigned(assignment) ==
    /\ consumer_started
    /\ LET gen == generation
       IN  /\ consumer_generation_id' = gen
           /\ assigned_call' =
                [ran |-> TRUE, assigned |-> ensure_TPset(assignment),
                 generation |-> gen,
                 worker_generation |->
                    WorkerGenerationAtHandler(consumer_generation_id, gen)]
    /\ delivered' = NoMessage
    /\ UNCHANGED <<consumer_started, generation, rebalance_start_calls,
                   revoke_awaitables, worker_revoked_calls>>
    /\ UNCHANGED notRebalanceVars

\* mutant: the message is stamped with the coordinator's current generation
MessageGenerationFromCoordinator(app_generation, coordinator_generation) ==
    coordinator_generation

\* generation_id=self.app.consumer_generation_id (line 277)
MessageGeneration(app_generation, coordinator_generation) == app_generation

\* Consumer._to_message (lines 259-278); timestamp_s = timestamp / 1000.0 is
\* kept as the pair (milliseconds, 1000)
ToMessage(tp, record) ==
    [ran |-> TRUE,
     topic |-> record.topic, partition |-> record.partition,
     offset |-> record.offset,
     timestamp |-> IF record.timestamp # None
                   THEN <<record.timestamp, 1000>> ELSE <<None, 1>>,
     tp |-> tp,
     generation_id |-> MessageGeneration(consumer_generation_id, generation)]

\* a fetched record is converted for delivery to the stream runtime
Deliver(tp, offset, timestamp) ==
    /\ consumer_started
    /\ delivered' = ToMessage(tp, [topic |-> tp.topic, partition |-> tp.partition,
                                   offset |-> offset, timestamp |-> timestamp])
    /\ UNCHANGED <<consumer_started, generation, consumer_generation_id,
                   rebalance_start_calls, revoke_awaitables,
                   worker_revoked_calls, assigned_call>>
    /\ UNCHANGED notRebalanceVars

(***************************************************************************)
(* Topic administrator: Transport._create_topic (lines 1472-1499) with     *)
(* mode's StampedeWrapper, _get_controller_node (1501-1518) and            *)
(* _really_create_topic (1520-1586).                                       *)
(*                                                                         *)
(* A StampedeWrapper is named by the call that made it: that call is the   *)
(* one that finds wrapper.fut unset and runs _really_create_topic, since   *)
(* nothing suspends between the KeyError branch of _create_topic and the   *)
(* first await of the wrapped function.  The wrapper's future is pending   *)
(* while that call runs the attempt and holds the result once it returned. *)
(***************************************************************************)
\* the topic names create_topic is called with
TopicNames == {"t"}

\* TOPIC_LENGTH_MAX (line 98)
TOPIC_LENGTH_MAX == 249

Twice(name) == name \o name
Name8 == Twice(Twice(Twice("x")))
Name16 == Twice(Name8)
Name128 == Twice(Twice(Twice(Name16)))

\* the longest name that passes the length check (128 + 64 + 32 + 16 + 8 + 1
\* characters) and the shortest that fails
LongestName ==
    Name128 \o Twice(Twice(Name16)) \o Twice(Name16) \o Name16 \o Name8 \o "x"
TooLongName == LongestName \o "x"
LongNames == {LongestName, TooLongName}
AllTopicNames == TopicNames \cup LongNames

\* `len(topic) > TOPIC_LENGTH_MAX` raises on the consumer path (lines
\* 1050-1053); Producer.create_topic has no such check
TooLong(owner, topic) == owner = "consumer" /\ Len(topic) > TOPIC_LENGTH_MAX
Owners == {"consumer", "producer"}
CreateIds == 1..NumCreates

\* no wrapper / no call
NoWrap == 0

IdleCreate == [pc |-> "idle", topic |-> "t", owner |-> "consumer",
               ensure_created |-> FALSE, wrap |-> NoWrap, requests |-> 0,
               code |-> "none", outcome |-> "none"]

\* the answers of the broker to a CreateTopics request (response.topic_errors)
CreateCodes == {"0", "TopicExists", "NotController", "InvalidPartitions"}

TopicInit ==
    /\ topic_waiters = [n \in AllTopicNames |-> NoWrap]
    /\ create_calls = [c \in CreateIds |-> IdleCreate]
    /\ producer_started = FALSE
    /\ stopping = [o \in Owners |-> FALSE]
    /\ cluster_topics = {}
    /\ broker_topics = {}

\* the attempt of a call is in flight: _really_create_topic is suspended in
\* _get_controller_node ("discover") or on its CreateTopics request ("create")
Running(c) == create_calls[c].pc \in {"discover", "create"}

\* mutant: the entry is removed whenever the attempt is over
ReleasedAlways(waiters, topic) == [waiters EXCEPT ![topic] = NoWrap]

\* _topic_waiters after an attempt that returned normally (lines 1495-1496)
WaitersAfterSuccess(waiters, topic) == waiters

\* _topic_waiters after wrap() raised: _topic_waiters.pop(topic, None)
\* (lines 1497-1499)
WaitersAfterFailure(waiters, topic) == [waiters EXCEPT ![topic] = NoWrap]

\* Producer.on_start (lines 1303-1308): self._producer is assigned before
\* producer.start() is awaited, and the driver records nothing when that
\* await ends
ProducerOnStart ==
    /\ ~producer_started
    /\ producer_started' = TRUE
    /\ stopping' = [stopping EXCEPT !["producer"] = FALSE]
    /\ UNCHANGED <<topic_waiters, create_calls, cluster_topics, broker_topics>>
    /\ UNCHANGED <<consumer_started, notTopicVars, txnVars>>

\* Producer.on_stop (lines 1310-1319): the waiter map is cleared, whatever is
\* in flight; when the producer was started, the transactional producers of
\* the registry are stopped and the registry is cleared (the locks stay)
ProducerOnStop ==
    /\ producer_started \/ ~stopping["producer"]
    /\ topic_waiters' = [n \in AllTopicNames |-> NoWrap]
    /\ producer_started' = FALSE
    /\ stopping' = [stopping EXCEPT !["producer"] = TRUE]
    /\ IF producer_started
       THEN /\ producers' = [p \in DOMAIN producers |->
                  IF \E i \in DOMAIN transaction_producers :
                         transaction_producers[i] = p
                  THEN [producers[p] EXCEPT !.state = "stopped"]
                  ELSE producers[p]]
            /\ transaction_producers' =
                  [i \in DOMAIN transaction_producers |-> 0]
       ELSE UNCHANGED <<producers, transaction_producers>>
    /\ UNCHANGED <<trn_locks, lock_holder, txn_calls>>
    /\ UNCHANGED <<create_calls, cluster_topics, broker_topics>>
    /\ UNCHANGED <<consumer_started, notTopicVars>>

\* Consumer.on_stop (lines 280-284)
ConsumerOnStop ==
    /\ consumer_started
    /\ ~stopping["consumer"]
    /\ topic_waiters' = [n \in AllTopicNames |-> NoWrap]
    /\ stopping' = [stopping EXCEPT !["consumer"] = TRUE]
    /\ UNCHANGED <<create_calls, producer_started, cluster_topics, broker_topics>>
    /\ UNCHANGED <<consumer_started, notTopicVars, txnVars>>

\* the client refreshes its cluster metadata
MetadataUpdate ==
    /\ cluster_topics # broker_topics
    /\ cluster_topics' = broker_topics
    /\ UNCHANGED <<topic_waiters, create_calls, producer_started, stopping,
                   broker_topics>>
    /\ UNCHANGED <<consumer_started, notTopicVars, txnVars>>

\* create_topic through the consumer (lines 1046-1067) or the producer
\* (1278-1293), then _create_topic and the wrapper up to the first await
CreateTopic(c, owner, topic, ensure_created) ==
    /\ create_calls[c].pc = "idle"
    /\ \A d \in CreateIds : d < c => create_calls[d].pc # "idle"
    /\ LET call == [IdleCreate EXCEPT !.topic = topic, !.owner = owner,
                                      !.ensure_created = ensure_created]
           started == IF owner = "consumer" THEN consumer_started
                      ELSE producer_started
           w == topic_waiters[topic]
       IN  IF ~conf.topic_allow_declare
           THEN \* "Topic creation disabled!": a warning, nothing else
                /\ create_calls' = [create_calls EXCEPT ![c] =
                       [call EXCEPT !.pc = "returned",
                                    !.outcome = "disabled"]]
                /\ UNCHANGED topic_waiters
           ELSE IF ~started
           THEN \* _ensure_consumer / _ensure_producer raises
                /\ create_calls' = [create_calls EXCEPT ![c] =
                       [call EXCEPT !.pc = "raised",
                          !.outcome = IF owner = "consumer"
                                      THEN "ConsumerNotStarted" ELSE "NotReady"]]
                /\ UNCHANGED topic_waiters
           ELSE IF TooLong(owner, topic)
           THEN /\ create_calls' = [create_calls EXCEPT ![c] =
                       [call EXCEPT !.pc = "raised", !.outcome = "ValueError"]]
                /\ UNCHANGED topic_waiters
           ELSE IF w = NoWrap
           THEN IF topic \in cluster_topics
                THEN \* "Topic exists, skipping creation": returns at once
                     /\ create_calls' = [create_calls EXCEPT ![c] =
                            [call EXCEPT !.pc = "returned", !.wrap = c,
                                         !.outcome = "ok"]]
                     /\ topic_waiters' = WaitersAfterSuccess(
                            [topic_waiters EXCEPT ![topic] = c], topic)
                ELSE \* the metadata request to find the controller is sent
                     /\ create_calls' = [create_calls EXCEPT ![c] =
                            [call EXCEPT !.pc = "discover", !.wrap = c]]
                     /\ topic_waiters' = [topic_waiters EXCEPT ![topic] = c]
           ELSE IF Running(w)
           THEN \* the wrapper's future is pending: await it
                /\ create_calls' = [create_calls EXCEPT ![c] =
                       [call EXCEPT !.pc = "waiting", !.wrap = w]]
                /\ UNCHANGED topic_waiters
           ELSE \* the wrapper's future is done: its result
                /\ create_calls' = [create_calls EXCEPT ![c] =
                       [call EXCEPT !.pc = "returned", !.wrap = w,
                                    !.outcome = "ok"]]
                /\ UNCHANGED topic_waiters
    /\ UNCHANGED <<producer_started, stopping, cluster_topics, broker_topics>>
    /\ UNCHANGED <<consumer_started, notTopicVars, txnVars>>

\* the attempt ends by returning: the wrapper's future gets the result
AttemptReturns(c, code) ==
    /\ create_calls' = [create_calls EXCEPT ![c].pc = "returned",
                                            ![c].code = code,
                                            ![c].outcome = "ok"]
    /\ topic_waiters' = WaitersAfterSuccess(topic_waiters, create_calls[c].topic)

\* the attempt ends by raising: _create_topic pops the entry and re-raises
AttemptRaises(c, exc, code) ==
    /\ create_calls' = [create_calls EXCEPT ![c].pc = "raised",
                                            ![c].code = code,
                                            ![c].outcome = exc]
    /\ topic_waiters' = WaitersAfterFailure(topic_waiters, create_calls[c].topic)

\* mutant: a missing controller is passed over in silence
ControllerMissingSilent(should_stop) == "return"

\* lines 1551-1556: controller_node is None
ControllerMissing(should_stop) ==
    IF should_stop THEN "return" ELSE "Exception"

\* owner.wait on the metadata request ends (lines 1509-1517, 1546-1562):
\* answer is "stopped", "error", "none" (no controller id) or "controller"
DiscoverReturn(c, answer) ==
    /\ create_calls[c].pc = "discover"
    /\ answer = "stopped" => stopping[create_calls[c].owner]
    /\ IF answer = "stopped"
       THEN \* controller_node is None and owner.should_stop
            /\ AttemptReturns(c, "none")
       ELSE IF answer = "error"
       THEN AttemptRaises(c, "KafkaError", "none")
       ELSE IF answer = "none"
       THEN IF ControllerMissing(stopping[create_calls[c].owner]) = "return"
            THEN AttemptReturns(c, "none")
            ELSE AttemptRaises(c, "Exception", "none")
       ELSE \* the CreateTopics request goes to the controller
            /\ create_calls' = [create_calls EXCEPT ![c].pc = "create",
                    ![c].requests = create_calls[c].requests + 1]
            /\ UNCHANGED topic_waiters
    /\ UNCHANGED <<producer_started, stopping, cluster_topics, broker_topics>>
    /\ UNCHANGED <<consumer_started, notTopicVars, txnVars>>

\* what _really_create_topic makes of the response code (lines 1574-1586)
CreateResult(code, ensure_created) ==
    IF code = "0" THEN "ok"
    ELSE IF ~ensure_created /\ code = "TopicExists" THEN "ok"
    ELSE IF code = "NotController" THEN "RuntimeError"
    ELSE IF code = "TopicExists" THEN "TopicAlreadyExistsError"
    ELSE "InvalidPartitionsError"

\* owner.wait on the CreateTopics request ends (lines 1563-1586)
CreateReturn(c, stopped, code) ==
    /\ create_calls[c].pc = "create"
    /\ stopped => stopping[create_calls[c].owner]
    /\ (code = "TopicExists") = (create_calls[c].topic \in broker_topics)
         \/ code \in {"NotController", "InvalidPartitions"}
    /\ broker_topics' = IF code = "0"
                        THEN broker_topics \cup {create_calls[c].topic}
                        ELSE broker_topics
    /\ IF stopped
       THEN \* the response is not read
            AttemptReturns(c, "none")
       ELSE LET r == CreateResult(code, create_calls[c].ensure_created)
            IN  IF r = "ok" THEN AttemptReturns(c, code)
                ELSE AttemptRaises(c, r, code)
    /\ UNCHANGED <<producer_started, stopping, cluster_topics>>
    /\ UNCHANGED <<consumer_started, notTopicVars, txnVars>>

\* a call that awaited the wrapper's future gets the runner's result
WaiterReturns(c) ==
    /\ create_calls[c].pc = "waiting"
    /\ create_calls[create_calls[c].wrap].pc = "returned"
    /\ create_calls' = [create_calls EXCEPT ![c].pc = "returned",
                                            ![c].outcome = "ok"]
    /\ topic_waiters' = WaitersAfterSuccess(topic_waiters, create_calls[c].topic)
    /\ UNCHANGED <<producer_started, stopping, cluster_topics, broker_topics>>
    /\ UNCHANGED <<consumer_started, notTopicVars, txnVars>>

\* a call that awaited the wrapper's future gets the runner's exception, when
\* the wrapper hands it on; it pops the entry like the runner did
WaiterRaises(c) ==
    /\ create_calls[c].pc = "waiting"
    /\ create_calls[create_calls[c].wrap].pc = "raised"
    /\ create_calls' = [create_calls EXCEPT ![c].pc = "raised",
            ![c].outcome = create_calls[create_calls[c].wrap].outcome]
    /\ topic_waiters' = WaitersAfterFailure(topic_waiters, create_calls[c].topic)
    /\ UNCHANGED <<producer_started, stopping, cluster_topics, broker_topics>>
    /\ UNCHANGED <<consumer_started, notTopicVars, txnVars>>

(***************************************************************************)
(* Transactional producers: Producer.begin_transaction (lines 1133-1155),  *)
(* commit_transaction (1157-1178), abort_transaction (1180-1199),          *)
(* stop_transaction (1201-1207), commit_transactions (1213-1241) and       *)
(* send (1321-1382).                                                       *)
(*                                                                         *)
(* The producer and the lock that a begin_transaction call creates are     *)
(* named by that call.  An asyncio.Lock that is free is taken without      *)
(* suspending, so a call runs from its entry, or from the await it resumes *)
(* from, to its next await in one step.                                    *)
(***************************************************************************)
TxnIds == {"tx1", "tx2"}
TxnCallIds == 1..NumTxnCalls
TxnOps == {"begin_transaction", "commit_transaction", "abort_transaction",
           "commit_transactions", "send", "send_and_wait", "stop_transaction"}

\* send (lines 1321-1382) and send_and_wait (1384-1405), which awaits send
\* and then the future send returned
SendOps == {"send", "send_and_wait"}

\* transactional_id=None: the message goes to the producer's own client
NoTransaction == ""

\* no producer / no lock / no holder
NoObject == 0

NoProducer == [state |-> "none", tid |-> "tx1"]

IdleTxnCall == [pc |-> "idle", op |-> "begin_transaction", tid |-> "tx1",
                lock |-> NoObject, prod |-> NoObject, uop |-> "none",
                fenced |-> NoObject, outcome |-> "none"]

TxnInit ==
    /\ transaction_producers = [i \in TxnIds |-> NoObject]
    /\ trn_locks = [i \in TxnIds |-> NoObject]
    /\ lock_holder = [l \in TxnCallIds |-> NoObject]
    /\ producers = [p \in TxnCallIds |-> NoProducer]
    /\ txn_calls = [c \in TxnCallIds |-> IdleTxnCall]

\* mutant: the producer is taken to be there
EnsureProducerNeverRaises(started) == FALSE

\* _ensure_producer raises NotReady: self._producer is None (lines 1298-1301)
EnsureProducerRaises(started) == ~started

\* the call has ended: what its caller sees
Ended(call, pc, outcome) ==
    [call EXCEPT !.pc = pc, !.outcome = outcome, !.uop = "none"]

\* the first operation a call runs on the underlying producer
FirstOp(op) ==
    IF op = "commit_transactions" THEN "send_offsets_to_transaction"
    ELSE IF op \in SendOps THEN "send"
    ELSE op

\* mutant: the producer found under the id is used without looking at it
AcquiredUnchecked(call, registry, started) ==
    IF call.op \in SendOps
    THEN [call EXCEPT !.pc = "op", !.uop = "send"]
    ELSE IF call.op = "begin_transaction" /\ EnsureProducerRaises(started)
    THEN Ended(call, "done", "NotReady")
    ELSE IF registry[call.tid] = NoObject
    THEN Ended(call, "raised", "AttributeError")
    ELSE [call EXCEPT !.pc = "op", !.prod = registry[call.tid],
                      !.uop = FirstOp(call.op)]

\* the body of `async with self._trn_locks[id]` up to its first await: the
\* call with the lock taken, in an operation of the underlying producer
\* (pc "op"), or ended without one
Acquired(call, registry, started) ==
    IF call.op \in SendOps
    THEN \* line 1359: the producer read before the lock was taken
         [call EXCEPT !.pc = "op", !.uop = "send"]
    ELSE IF call.op = "begin_transaction" /\ EnsureProducerRaises(started)
    THEN \* line 1145 raises NotReady, logged at 1151
         Ended(call, "done", "NotReady")
    ELSE IF registry[call.tid] = NoObject
    THEN IF call.op = "begin_transaction"
         THEN \* line 1146 raises KeyError, logged at 1151
              Ended(call, "done", "KeyError")
         ELSE \* "invoked for unknown transaction"
              Ended(call, "done", "unknown")
    ELSE [call EXCEPT !.pc = "op", !.prod = registry[call.tid],
                      !.uop = FirstOp(call.op)]

\* the lock `self._trn_locks[transactional_id]` evaluates to
LockOf(locks, tid, c) == locks[tid]

\* `async with lock`: the lock is taken at once when it is free, and waited
\* for otherwise
Enter(c, call, l, holders, registry, started) ==
    IF holders[l] = NoObject
    THEN Acquired([call EXCEPT !.lock = l], registry, started)
    ELSE [call EXCEPT !.pc = "acquire", !.lock = l]

\* the holders of the locks after the call moved to `next`
Holders(c, next, holders) ==
    IF next.lock = NoObject THEN holders
    ELSE IF next.pc = "op" THEN [holders EXCEPT ![next.lock] = c]
    ELSE IF next.lock # NoObject /\ holders[next.lock] = c
    THEN [holders EXCEPT ![next.lock] = NoObject]
    ELSE holders

\* a transactional operation is called: it runs to its first await
TxnCall(c, op, tid) ==
    /\ txn_calls[c].pc = "idle"
    /\ \A d \in TxnCallIds : d < c => txn_calls[d].pc # "idle"
    /\ tid = NoTransaction => op \in SendOps
    /\ LET call == [IdleTxnCall EXCEPT !.op = op, !.tid = tid]
           p == transaction_producers[tid]
           l == LockOf(trn_locks, tid, c)
       IN  IF op = "begin_transaction" /\ p = NoObject
           THEN \* lines 1138-1141: a new producer, await start()
                /\ txn_calls' = [txn_calls EXCEPT ![c] =
                       [call EXCEPT !.pc = "starting", !.prod = c]]
                /\ producers' = [producers EXCEPT ![c] =
                       [state |-> "starting", tid |-> tid]]
                /\ UNCHANGED <<transaction_producers, lock_holder>>
           ELSE IF op = "stop_transaction"
           THEN \* lines 1205-1207
                /\ transaction_producers' =
                       [transaction_producers EXCEPT ![tid] = NoObject]
                /\ IF p = NoObject
                   THEN /\ txn_calls' = [txn_calls EXCEPT ![c] =
                               Ended(call, "done", "ok")]
                        /\ UNCHANGED producers
                   ELSE /\ txn_calls' = [txn_calls EXCEPT ![c] =
                               [call EXCEPT !.pc = "stopping", !.prod = p]]
                        /\ producers' = [producers EXCEPT ![p].state = "stopping"]
                /\ UNCHANGED lock_holder
           ELSE IF op \in SendOps /\ EnsureProducerRaises(producer_started)
           THEN \* line 1334
                /\ txn_calls' = [txn_calls EXCEPT ![c] =
                       Ended(call, "raised", "NotReady")]
                /\ UNCHANGED <<transaction_producers, lock_holder, producers>>
           ELSE IF op \in SendOps /\ tid = NoTransaction
           THEN \* lines 1369-1379: await self._producer.send(...)
                /\ txn_calls' = [txn_calls EXCEPT ![c] =
                       [call EXCEPT !.pc = "op", !.uop = "send"]]
                /\ UNCHANGED <<transaction_producers, lock_holder, producers>>
           ELSE IF op \in SendOps /\ p = NoObject
           THEN \* lines 1337-1340
                /\ txn_calls' = [txn_calls EXCEPT ![c] =
                       Ended(call, "raised", "ProducerSendError")]
                /\ UNCHANGED <<transaction_producers, lock_holder, producers>>
           ELSE IF l = NoObject
           THEN \* self._trn_locks[id] raises KeyError: logged by
                \* commit_transaction and abort_transaction, raised by
                \* commit_transactions
                /\ txn_calls' = [txn_calls EXCEPT ![c] =
                       IF op = "commit_transactions"
                       THEN Ended(call, "raised", "KeyError")
                       ELSE Ended(call, "done", "KeyError")]
                /\ UNCHANGED <<transaction_producers, lock_holder, producers>>
           ELSE LET next == Enter(c, [call EXCEPT !.prod = p], l, lock_holder,
                                  transaction_producers, producer_started)
                IN  /\ txn_calls' = [txn_calls EXCEPT ![c] = next]
                    /\ lock_holder' = Holders(c, next, lock_holder)
                    /\ UNCHANGED <<transaction_producers, producers>>
    /\ UNCHANGED <<trn_locks, producer_started, consumer_started, notTxnVars>>

\* lines 1142-1143: the new producer and a new lock are stored under the id,
\* whatever is stored there
Install(map, tid, c) == [map EXCEPT ![tid] = c]

\* `await transaction_producer.start()` of begin_transaction ends: result is
\* "ok", "fenced" (ProducerFenced) or "error" (another exception)
TxnStartReturn(c, result) ==
    /\ txn_calls[c].pc = "starting"
    /\ LET call == txn_calls[c]
           p == transaction_producers[call.tid]
       IN  IF result = "error"
           THEN \* logged at 1151; nothing stops the new producer
                /\ txn_calls' = [txn_calls EXCEPT ![c] =
                       Ended(call, "done", "KafkaError")]
                /\ producers' = [producers EXCEPT ![c].state = "failed"]
                /\ UNCHANGED <<transaction_producers, trn_locks, lock_holder>>
           ELSE IF result = "fenced" /\ p = NoObject
           THEN \* line 1149: pop(id) of an id that is not registered
                /\ txn_calls' = [txn_calls EXCEPT ![c] =
                       [Ended(call, "raised", "KeyError") EXCEPT !.fenced = c]]
                /\ producers' = [producers EXCEPT ![c].state = "failed"]
                /\ UNCHANGED <<transaction_producers, trn_locks, lock_holder>>
           ELSE IF result = "fenced"
           THEN \* lines 1149-1150: the producer another call registered is
                \* popped and stopped
                /\ txn_calls' = [txn_calls EXCEPT ![c] =
                       [call EXCEPT !.pc = "stopping", !.prod = p,
                                    !.fenced = c]]
                /\ producers' = [producers EXCEPT ![c].state = "failed",
                                                  ![p].state = "stopping"]
                /\ transaction_producers' =
                       [transaction_producers EXCEPT ![call.tid] = NoObject]
                /\ UNCHANGED <<trn_locks, lock_holder>>
           ELSE LET registry == Install(transaction_producers, call.tid, c)
                    locks == Install(trn_locks, call.tid, c)
                    l == LockOf(locks, call.tid, c)
                    next == Enter(c, call, l, lock_holder, registry,
                                  producer_started)
                IN  /\ producers' = [producers EXCEPT ![c].state = "started"]
                    /\ transaction_producers' = registry
                    /\ trn_locks' = locks
                    /\ txn_calls' = [txn_calls EXCEPT ![c] = next]
                    /\ lock_holder' = Holders(c, next, lock_holder)
    /\ UNCHANGED <<producer_started, consumer_started, notTxnVars>>

\* a call waiting for a lock gets it
TxnAcquire(c) ==
    /\ txn_calls[c].pc = "acquire"
    /\ lock_holder[txn_calls[c].lock] = NoObject
    /\ LET next == Acquired(txn_calls[c], transaction_producers,
                            producer_started)
       IN  /\ txn_calls' = [txn_calls EXCEPT ![c] = next]
           /\ lock_holder' = Holders(c, next, lock_holder)
    /\ UNCHANGED <<transaction_producers, trn_locks, producers>>
    /\ UNCHANGED <<producer_started, consumer_started, notTxnVars>>

\* the operation that follows `uop` in the body of the call, "none" at its end
NextOp(op, uop, start_new_transaction) ==
    IF op # "commit_transactions" THEN "none"
    ELSE IF uop = "send_offsets_to_transaction" THEN "commit_transaction"
    ELSE IF uop = "commit_transaction" /\ start_new_transaction
    THEN "begin_transaction"
    ELSE "none"

\* an operation of the underlying producer ends: result is "ok", "fenced"
\* (ProducerFenced) or "error" (another KafkaError)
TxnOpReturn(c, result, start_new_transaction) ==
    /\ txn_calls[c].pc = "op"
    /\ LET call == txn_calls[c]
           handled == call.op \in {"begin_transaction", "commit_transaction",
                                   "abort_transaction"}
           p == transaction_producers[call.tid]
           nextop == NextOp(call.op, call.uop, start_new_transaction)
           was == IF result = "fenced" THEN call.prod ELSE call.fenced
           next0 ==
             IF result = "ok"
             THEN IF call.op = "send_and_wait"
                  THEN \* line 1405: await the future send returned
                       [call EXCEPT !.pc = "delivery", !.uop = "none"]
                  ELSE IF nextop = "none" THEN Ended(call, "done", "ok")
                  ELSE [call EXCEPT !.uop = nextop]
             ELSE IF ~handled
             THEN Ended(call, "raised",
                        IF call.op \in SendOps THEN "ProducerSendError"
                        ELSE IF result = "fenced" THEN "ProducerFenced"
                        ELSE "KafkaError")
             ELSE IF result = "error"
             THEN Ended(call, "done", "KafkaError")
             ELSE IF p = NoObject
             THEN \* _transaction_producers.pop(id) raises KeyError
                  Ended(call, "raised", "KeyError")
             ELSE \* pop, then await tp.stop()
                  [call EXCEPT !.pc = "stopping", !.prod = p, !.uop = "none"]
           \* the producer that raised ProducerFenced in this call, if any
           next == [next0 EXCEPT !.fenced = was]
       IN  /\ txn_calls' = [txn_calls EXCEPT ![c] = next]
           /\ lock_holder' = Holders(c, next, lock_holder)
           /\ IF next.pc = "stopping"
              THEN /\ transaction_producers' =
                         [transaction_producers EXCEPT ![call.tid] = NoObject]
                   /\ producers' = [producers EXCEPT ![p].state = "stopping"]
              ELSE UNCHANGED <<transaction_producers, producers>>
    /\ UNCHANGED <<trn_locks, producer_started, consumer_started, notTxnVars>>

\* the future that send returned to send_and_wait is resolved (line 1405)
TxnDelivered(c, ok) ==
    /\ txn_calls[c].pc = "delivery"
    /\ txn_calls' = [txn_calls EXCEPT ![c] =
           IF ok THEN Ended(txn_calls[c], "done", "ok")
           ELSE Ended(txn_calls[c], "raised", "KafkaError")]
    /\ UNCHANGED <<transaction_producers, trn_locks, lock_holder, producers>>
    /\ UNCHANGED <<producer_started, consumer_started, notTxnVars>>

\* `await tp.stop()` ends
TxnStopReturn(c) ==
    /\ txn_calls[c].pc = "stopping"
    /\ producers' = [producers EXCEPT ![txn_calls[c].prod].state = "stopped"]
    /\ txn_calls' = [txn_calls EXCEPT ![c] = Ended(txn_calls[c], "done", "ok")]
    /\ UNCHANGED <<transaction_producers, trn_locks, lock_holder>>
    /\ UNCHANGED <<producer_started, consumer_started, notTxnVars>>

(***************************************************************************)
(* Fetching (lines 992-1030).  getmany hands _fetch_records to the thread's *)
(* method queue; the request runs when it is dequeued.  The flow flag is   *)
(* the Consumer's, stopped and resumed around rebalances; the closed flags *)
(* are the client library's.                                               *)
(***************************************************************************)
GetmanyIds == 1..NumGetmany

IdleGetmany == [pc |-> "idle", outcome |-> "none", asked |-> FALSE]

FetchInit ==
    /\ flow_active = TRUE
    /\ consumer_closed = FALSE
    /\ fetcher_closed = FALSE
    /\ fetch_context = {}
    /\ closes_scheduled = [client |-> 0, coordinator |-> 0]
    /\ getmany_calls = [c \in GetmanyIds |-> IdleGetmany]

\* the stream runtime stops the flow (a rebalance begins)
StopFlow ==
    /\ flow_active
    /\ flow_active' = FALSE
    /\ UNCHANGED <<consumer_closed, fetcher_closed, fetch_context,
                   closes_scheduled, getmany_calls>>
    /\ UNCHANGED <<consumer_started, notFetchVars>>

\* the stream runtime resumes the flow
ResumeFlow ==
    /\ ~flow_active
    /\ flow_active' = TRUE
    /\ UNCHANGED <<consumer_closed, fetcher_closed, fetch_context,
                   closes_scheduled, getmany_calls>>
    /\ UNCHANGED <<consumer_started, notFetchVars>>

\* close (lines 688-697): the flag is set and the two close coroutines are
\* handed to app.loop, on every call
Close ==
    /\ closes_scheduled.client < MaxCloses
    /\ IF consumer_started
       THEN /\ consumer_closed' = TRUE
            /\ closes_scheduled' =
                  [client |-> closes_scheduled.client + 1,
                   coordinator |-> closes_scheduled.coordinator + 1]
       ELSE UNCHANGED <<consumer_closed, closes_scheduled>>
    /\ UNCHANGED <<flow_active, fetcher_closed, fetch_context, getmany_calls>>
    /\ UNCHANGED <<consumer_started, notFetchVars>>

\* on_thread_stop (lines 487-493): `await self._consumer.stop()` closes the
\* consumer and its fetcher
OnThreadStop ==
    /\ IF consumer_started
       THEN consumer_closed' = TRUE /\ fetcher_closed' = TRUE
       ELSE UNCHANGED <<consumer_closed, fetcher_closed>>
    /\ UNCHANGED <<flow_active, fetch_context, closes_scheduled, getmany_calls>>
    /\ UNCHANGED <<consumer_started, notFetchVars>>

\* getmany (lines 992-1008): the request is enqueued
Getmany(c) ==
    /\ getmany_calls[c].pc = "idle"
    /\ getmany_calls' = [getmany_calls EXCEPT ![c] =
           IF EnsureConsumerRaises(consumer_started)
           THEN [pc |-> "raised", outcome |-> "ConsumerNotStarted",
                 asked |-> FALSE]
           ELSE [pc |-> "queued", outcome |-> "none", asked |-> FALSE]]
    /\ UNCHANGED <<flow_active, consumer_closed, fetcher_closed, fetch_context,
                   closes_scheduled>>
    /\ UNCHANGED <<consumer_started, notFetchVars>>

\* mutant: the closed flags are not looked at
FetchRecordsStepIgnoringClosed(flow, closed, fclosed) ==
    IF ~flow THEN "return empty" ELSE "fetch"

\* mutant: the flow flag is not looked at
FetchRecordsStepIgnoringFlow(flow, closed, fclosed) ==
    IF closed \/ fclosed THEN "raise ConsumerStopped" ELSE "fetch"

\* _fetch_records, lines 1017-1021: what the request does when it is dequeued
FetchRecordsStep(flow, closed, fclosed) ==
    IF ~flow THEN "return empty"
    ELSE IF closed \/ fclosed THEN "raise ConsumerStopped"
    ELSE "fetch"

\* _fetch_records (lines 1010-1030) up to `await fetcher.fetched_records`
FetchRecords(c) ==
    /\ getmany_calls[c].pc = "queued"
    /\ LET step == FetchRecordsStep(flow_active, consumer_closed,
                                     fetcher_closed)
       IN  IF step = "return empty"
           THEN /\ getmany_calls' = [getmany_calls EXCEPT ![c] =
                      [pc |-> "done", outcome |-> "empty", asked |-> FALSE]]
                /\ UNCHANGED fetch_context
           ELSE IF step = "raise ConsumerStopped"
           THEN /\ getmany_calls' = [getmany_calls EXCEPT ![c] =
                      [pc |-> "raised", outcome |-> "ConsumerStopped",
                       asked |-> FALSE]]
                /\ UNCHANGED fetch_context
           ELSE /\ getmany_calls' = [getmany_calls EXCEPT ![c] =
                      [pc |-> "fetching", outcome |-> "none", asked |-> TRUE]]
                /\ fetch_context' = fetch_context \cup {c}
    /\ UNCHANGED <<flow_active, consumer_closed, fetcher_closed,
                   closes_scheduled>>
    /\ UNCHANGED <<consumer_started, notFetchVars>>

\* fetcher.fetched_records returns records, or nothing after the timeout;
\* the fetch context is left (lines 1022-1030)
FetchedRecords(c, outcome) ==
    /\ getmany_calls[c].pc = "fetching"
    /\ getmany_calls' = [getmany_calls EXCEPT ![c] =
           [pc |-> "done", outcome |-> outcome, asked |-> TRUE]]
    /\ fetch_context' = fetch_context \ {c}
    /\ UNCHANGED <<flow_active, consumer_closed, fetcher_closed,
                   closes_scheduled>>
    /\ UNCHANGED <<consumer_started, notFetchVars>>

NextFetch ==
    \/ ConsumerOnStart
    \/ StopFlow
    \/ ResumeFlow
    \/ Close
    \/ OnThreadStop
    \/ \E c \in GetmanyIds : Getmany(c)
    \/ \E c \in GetmanyIds : FetchRecords(c)
    \/ \E c \in GetmanyIds, outcome \in {"records", "empty"} :
           FetchedRecords(c, outcome)

(***************************************************************************)
(* ThreadedProducer (lines 290-380).  on_thread_stop, push_events and      *)
(* flush are coroutines of the thread loop: each action runs one of them   *)
(* from one await to the next.  _shutdown_thread runs on the parent        *)
(* thread.                                                                 *)
(***************************************************************************)
MessageIds == 1..NumMessages
ShutdownIds == 1..MaxShutdowns
\* one flush() call from outside on_thread_stop is followed
FlushIds == {1}

\* no message held
NoMessageId == 0

NoThreaded == [started |-> FALSE,             \* on_start has run
               stopped |-> FALSE,             \* self.stopped
               shutdown_initiated |-> FALSE,  \* self._shutdown_initiated
               shutdown_calls |-> 0,          \* _shutdown_thread calls so far
               flushes |-> 0,                 \* _producer.flush() calls
               stops |-> 0]                   \* _producer.stop() calls

UnputMessage == [put |-> "no", sends |-> 0, by |-> "none",
                 sent_after_stop |-> FALSE]

IdleCoroutine == [pc |-> "none", msg |-> NoMessageId]

ThreadInit ==
    /\ threaded = NoThreaded
    /\ event_queue = <<>>
    /\ messages = [m \in MessageIds |-> UnputMessage]
    /\ thread_stops = [t \in ShutdownIds |-> IdleCoroutine]
    /\ push_task = IdleCoroutine
    /\ flush_calls = [f \in FlushIds |-> IdleCoroutine]

\* on_start (lines 349-354); the thread runs it before any shutdown
ThreadedOnStart ==
    /\ ~threaded.started
    /\ threaded.shutdown_calls = 0
    /\ threaded' = [threaded EXCEPT !.started = TRUE, !.stopped = FALSE]
    /\ event_queue' = <<>>
    /\ push_task' = [pc |-> "loop", msg |-> NoMessageId]
    /\ UNCHANGED <<messages, thread_stops, flush_calls>>
    /\ UNCHANGED notThreadVars

\* a message is put on event_queue
PutEvent(m) ==
    /\ threaded.started
    /\ messages[m].put = "no"
    /\ \A d \in MessageIds : d < m => messages[d].put # "no"
    /\ event_queue' = Append(event_queue, m)
    /\ messages' = [messages EXCEPT ![m].put =
           IF threaded.stopped THEN "after stopped" ELSE "before stopped"]
    /\ UNCHANGED <<threaded, thread_stops, push_task, flush_calls>>
    /\ UNCHANGED notThreadVars

\* line 321: whether _shutdown_thread schedules on_thread_stop
ShutdownSchedules(initiated) == ~initiated

\* _shutdown_thread (lines 319-322)
ShutdownThread(t) ==
    /\ threaded.shutdown_calls = t - 1
    /\ threaded' = [threaded EXCEPT !.shutdown_calls = t]
    /\ thread_stops' =
           IF ShutdownSchedules(threaded.shutdown_initiated)
           THEN [thread_stops EXCEPT ![t].pc = "scheduled"]
           ELSE thread_stops
    /\ UNCHANGED <<event_queue, messages, push_task, flush_calls>>
    /\ UNCHANGED notThreadVars

\* publish_message up to `await producer.send(...)` (lines 382-431): the
\* message is with the underlying producer
Sent(msgs, m, by, stopped_producer) ==
    [msgs EXCEPT ![m].sends = msgs[m].sends + 1,
                 ![m].by = by,
                 ![m].sent_after_stop = msgs[m].sent_after_stop
                                        \/ stopped_producer]

\* mutant: flush reads the head of the queue and leaves it there
AfterGetNowaitPeek(queue) == queue

\* event_queue.get_nowait(): the queue without its head
AfterGetNowait(queue) == Tail(queue)

\* one round of flush's loop (lines 326-334) for the producer state thr:
\* the next message is taken and sent, or the queue is empty and
\* _producer.flush() is called; the result is the state after the round
\* with the place the coroutine waits at
FlushRound(thr) ==
    IF event_queue # <<>>
    THEN [queue |-> AfterGetNowait(event_queue),
          msgs |-> Sent(messages, Head(event_queue), "flush", thr.stops > 0),
          thr |-> thr,
          co |-> [pc |-> "publishing", msg |-> Head(event_queue)]]
    ELSE [queue |-> event_queue,
          msgs |-> messages,
          thr |-> IF thr.started THEN [thr EXCEPT !.flushes = @ + 1] ELSE thr,
          co |-> [pc |-> IF thr.started THEN "producer_flush" ELSE "flushed",
                  msg |-> NoMessageId]]

\* on_thread_stop starts to run: line 358, up to `await super().on_thread_stop()`
ThreadStopBegin(t) ==
    /\ thread_stops[t].pc = "scheduled"
    /\ threaded' = [threaded EXCEPT !.shutdown_initiated = TRUE]
    /\ thread_stops' = [thread_stops EXCEPT ![t].pc = "super"]
    /\ UNCHANGED <<event_queue, messages, push_task, flush_calls>>
    /\ UNCHANGED notThreadVars

\* lines 361-364: stopped is set and flush begins; without a producer the
\* coroutine goes on to the push task, which is None as well
ThreadStopStopped(t) ==
    /\ thread_stops[t].pc = "super"
    /\ IF threaded.started
       THEN LET round == FlushRound([threaded EXCEPT !.stopped = TRUE])
            IN  /\ threaded' = round.thr
                /\ event_queue' = round.queue
                /\ messages' = round.msgs
                /\ thread_stops' = [thread_stops EXCEPT ![t] = round.co]
       ELSE /\ threaded' = [threaded EXCEPT !.stopped = TRUE]
            /\ thread_stops' = [thread_stops EXCEPT ![t].pc = "done"]
            /\ UNCHANGED <<event_queue, messages>>
    /\ UNCHANGED <<push_task, flush_calls>>
    /\ UNCHANGED notThreadVars

\* publish_message returns to the flush of on_thread_stop, which goes
\* round again; on a stopped producer it may raise instead
ThreadStopPublished(t, result) ==
    /\ thread_stops[t].pc = "publishing"
    /\ result = "raised" => messages[thread_stops[t].msg].sent_after_stop
    /\ IF result = "raised"
       THEN /\ thread_stops' = [thread_stops EXCEPT ![t] =
                                   [pc |-> "raised", msg |-> NoMessageId]]
            /\ UNCHANGED <<threaded, event_queue, messages>>
       ELSE LET round == FlushRound(threaded)
            IN  /\ threaded' = round.thr
                /\ event_queue' = round.queue
                /\ messages' = round.msgs
                /\ thread_stops' = [thread_stops EXCEPT ![t] = round.co]
    /\ UNCHANGED <<push_task, flush_calls>>
    /\ UNCHANGED notThreadVars

\* _producer.flush() returns and _producer.stop() is called (line 365)
ThreadStopFlushed(t) ==
    /\ thread_stops[t].pc = "producer_flush"
    /\ threaded' = [threaded EXCEPT !.stops = @ + 1]
    /\ thread_stops' = [thread_stops EXCEPT ![t].pc = "producer_stop"]
    /\ UNCHANGED <<event_queue, messages, push_task, flush_calls>>
    /\ UNCHANGED notThreadVars

\* _producer.stop() returns, and later every sleep of the loop at lines
\* 366-368: the coroutine ends once the push task is done
ThreadStopWaited(t) ==
    /\ thread_stops[t].pc \in {"producer_stop", "wait_push"}
    /\ thread_stops' = [thread_stops EXCEPT ![t].pc =
           IF push_task.pc \in {"done", "raised"} THEN "done"
           ELSE "wait_push"]
    /\ thread_stops'[t] # thread_stops[t]
    /\ UNCHANGED <<threaded, event_queue, messages, push_task, flush_calls>>
    /\ UNCHANGED notThreadVars

\* mutant: the push task never looks at stopped
PushGoesOnAlways(stopped) == TRUE

\* `while not self.stopped` (line 371)
PushGoesOn(stopped) == ~stopped

\* push_events, line 371: the loop's test, then wait_for is entered
PushLoop ==
    /\ push_task.pc = "loop"
    /\ push_task' = [push_task EXCEPT !.pc =
           IF PushGoesOn(threaded.stopped) THEN "polling" ELSE "done"]
    /\ UNCHANGED <<threaded, event_queue, messages, thread_stops, flush_calls>>
    /\ UNCHANGED notThreadVars

\* the poll at line 373 times out on an empty queue
PushTimeout ==
    /\ push_task.pc = "polling"
    /\ event_queue = <<>>
    /\ push_task' = [push_task EXCEPT !.pc = "loop"]
    /\ UNCHANGED <<threaded, event_queue, messages, thread_stops, flush_calls>>
    /\ UNCHANGED notThreadVars

\* event_queue.get() inside wait_for takes the head of the queue; where
\* wait_for runs the get as a task of its own, push_events resumes with the
\* event in a later step
PushTake ==
    /\ push_task.pc = "polling"
    /\ event_queue # <<>>
    /\ event_queue' = Tail(event_queue)
    /\ push_task' = [pc |-> "taken", msg |-> Head(event_queue)]
    /\ UNCHANGED <<threaded, messages, thread_stops, flush_calls>>
    /\ UNCHANGED notThreadVars

\* lines 377-380: push_events has the event and publishes it
PushPublish ==
    /\ push_task.pc = "taken"
    /\ messages' = Sent(messages, push_task.msg, "push", threaded.stops > 0)
    /\ push_task' = [push_task EXCEPT !.pc = "publishing"]
    /\ UNCHANGED <<threaded, event_queue, thread_stops, flush_calls>>
    /\ UNCHANGED notThreadVars

\* publish_message returns to push_events; on a stopped producer it may
\* raise instead, which ends the task
PushPublished(result) ==
    /\ push_task.pc = "publishing"
    /\ result = "raised" => messages[push_task.msg].sent_after_stop
    /\ push_task' = [pc |-> IF result = "raised" THEN "raised" ELSE "loop",
                     msg |-> NoMessageId]
    /\ UNCHANGED <<threaded, event_queue, messages, thread_stops, flush_calls>>
    /\ UNCHANGED notThreadVars

\* flush() called from outside on_thread_stop (lines 324-334)
Flush(f) ==
    /\ threaded.started
    /\ flush_calls[f].pc = "none"
    /\ \A d \in FlushIds : d < f => flush_calls[d].pc # "none"
    /\ LET round == FlushRound(threaded)
       IN  /\ threaded' = round.thr
           /\ event_queue' = round.queue
           /\ messages' = round.msgs
           /\ flush_calls' = [flush_calls EXCEPT ![f] = round.co]
    /\ UNCHANGED <<thread_stops, push_task>>
    /\ UNCHANGED notThreadVars

\* publish_message returns to flush(), which goes round again
FlushPublished(f, result) ==
    /\ flush_calls[f].pc = "publishing"
    /\ result = "raised" => messages[flush_calls[f].msg].sent_after_stop
    /\ IF result = "raised"
       THEN /\ flush_calls' = [flush_calls EXCEPT ![f] =
                                  [pc |-> "raised", msg |-> NoMessageId]]
            /\ UNCHANGED <<threaded, event_queue, messages>>
       ELSE LET round == FlushRound(threaded)
            IN  /\ threaded' = round.thr
                /\ event_queue' = round.queue
                /\ messages' = round.msgs
                /\ flush_calls' = [flush_calls EXCEPT ![f] = round.co]
    /\ UNCHANGED <<thread_stops, push_task>>
    /\ UNCHANGED notThreadVars

\* _producer.flush() returns to flush()
FlushReturn(f) ==
    /\ flush_calls[f].pc = "producer_flush"
    /\ flush_calls' = [flush_calls EXCEPT ![f].pc = "done"]
    /\ UNCHANGED <<threaded, event_queue, messages, thread_stops, push_task>>
    /\ UNCHANGED notThreadVars

NextThreaded ==
    \/ ThreadedOnStart
    \/ \E m \in MessageIds : PutEvent(m)
    \/ \E t \in ShutdownIds : ShutdownThread(t)
    \/ \E t \in ShutdownIds : ThreadStopBegin(t)
    \/ \E t \in ShutdownIds : ThreadStopStopped(t)
    \/ \E t \in ShutdownIds, result \in {"ok", "raised"} :
           ThreadStopPublished(t, result)
    \/ \E t \in ShutdownIds : ThreadStopFlushed(t)
    \/ \E t \in ShutdownIds : ThreadStopWaited(t)
    \/ PushLoop
    \/ PushTimeout
    \/ PushTake
    \/ PushPublish
    \/ \E result \in {"ok", "raised"} : PushPublished(result)
    \/ \E f \in FlushIds : Flush(f)
    \/ \E f \in FlushIds, result \in {"ok", "raised"} : FlushPublished(f, result)
    \/ \E f \in FlushIds : FlushReturn(f)

(***************************************************************************)
(* Rebalancing spans (lines 585-686).  A lazy span's finish() is replaced  *)
(* by _span_finish; _real_finish is the tracer's own finish.  The methods  *)
(* are synchronous: each runs in one step.                                 *)
(***************************************************************************)
SpanIds == 1..NumSpans

\* the operation names spans are started with: start_rebalancing_span,
\* start_coordinator_span, and a span traced from a parent whose name holds
\* the placeholder
SpanNames == {"rebalancing", "coordinator", "join.REPLACE_WITH_MEMBER_ID"}

\* app.conf.id and what the coordinator reports
AppId == "app"
MemberId == "m1"
CoordinatorId == 7

NoSpan == [kind |-> "none", state |-> "none", operation_name |-> "",
           trace_id |-> <<>>, tags |-> {}, finishes |-> 0]

SpanInit ==
    /\ pending_rebalancing_spans = <<>>
    /\ spans = [s \in SpanIds |-> NoSpan]
    /\ finished = <<>>

\* str.endswith
EndsWith(name, suffix) ==
    /\ Len(name) >= Len(suffix)
    /\ SubSeq(name, Len(name) - Len(suffix) + 1, Len(name)) = suffix

\* murmur2(f"reb-{app_id}-{generation}".encode()): the hash of the text,
\* kept as the text's parts
TraceId(app_id, gen) == <<"murmur2", "reb-", app_id, "-", gen>>

\* _start_span (lines 591-604): kind is "lazy" (start_rebalancing_span, or
\* traced_from_parent_span with lazy), "bare" (a lazy span of a tracer whose
\* spans have no operation_name attribute), "plain", or "noop" without a
\* tracer
SpanKinds == {"lazy", "bare", "plain", "noop"}

\* `span.operation_name` does not raise AttributeError
HasOperationName(span) == span.kind # "bare"

StartSpan(s, name, kind) ==
    /\ spans[s].state = "none"
    /\ \A d \in SpanIds : d < s => spans[d].state # "none"
    /\ spans' = [spans EXCEPT ![s] =
           [kind |-> kind, state |-> "started",
            operation_name |-> IF kind \in {"noop", "bare"} THEN "" ELSE name,
            trace_id |-> <<>>,
            tags |-> IF kind = "noop" THEN {}
                     ELSE {<<"sampling.priority", 1>>},
            finishes |-> 0]]
    /\ UNCHANGED <<pending_rebalancing_spans, finished>>
    /\ UNCHANGED <<consumer_started, generation, notSpanVars>>

\* lines 652-653
Renamed(op_name, member_id) ==
    IF EndsWith(op_name, ".REPLACE_WITH_MEMBER_ID")
    THEN "rebalancing node " \o member_id
    ELSE op_name

\* _on_span_generation_known (lines 634-658) on a span, with the consumer
\* there
GenerationKnown(span, gen) ==
    IF ~HasOperationName(span) THEN [span EXCEPT !.state = "dropped"]
    ELSE
    [span EXCEPT !.state = "finished",
                 !.trace_id = TraceId(AppId, gen),
                 !.operation_name = Renamed(span.operation_name, MemberId),
                 !.tags = span.tags \cup {<<"kafka_generation", gen>>,
                                          <<"kafka_member_id", MemberId>>,
                                          <<"kafka_coordinator_id", CoordinatorId>>},
                 !.finishes = span.finishes + 1]

\* mutant: a cancelled span keeps its name
CancelledNameUnchanged(op_name) == op_name

\* line 666
CancelledName(op_name) == op_name \o " (CANCELLED)"

\* _on_span_cancelled_early (lines 660-667)
CancelledEarly(span) ==
    IF ~HasOperationName(span) THEN [span EXCEPT !.state = "dropped"]
    ELSE
    [span EXCEPT !.state = "cancelled",
                 !.operation_name = CancelledName(span.operation_name),
                 !.finishes = span.finishes + 1]

\* mutant: the queue is drained from its right end
DrainOrderLifo(queue) ==
    [i \in 1..Len(queue) |-> queue[Len(queue) + 1 - i]]

\* `while queue: span = queue.popleft()`: the order in which a drain takes
\* the spans (lines 679-680, 684-685)
DrainOrder(queue) == queue

Range(q) == {q[i] : i \in DOMAIN q}

\* the spans of a drain on which _real_finish is called, in call order
RealFinishes(order) ==
    LET Real(s) == HasOperationName(spans[s]) IN SelectSeq(order, Real)

\* the spans after a drain has taken the entries of the queue one by one and
\* called _on_span_generation_known ("known"; "absent" when self._consumer is
\* None) or _on_span_cancelled_early ("cancel") on each
RECURSIVE Drained(_, _, _, _)
Drained(order, sp, how, gen) ==
    IF order = <<>> THEN sp
    ELSE LET s == Head(order)
             after == IF how = "cancel" THEN CancelledEarly(sp[s])
                      ELSE IF how = "known" THEN GenerationKnown(sp[s], gen)
                      ELSE [sp[s] EXCEPT !.state = "dropped"]
         IN  Drained(Tail(order), [sp EXCEPT ![s] = after], how, gen)

\* span.finish()
SpanFinish(s) ==
    /\ spans[s].state = "started"
    /\ IF spans[s].kind = "plain"
       THEN /\ spans' = [spans EXCEPT ![s].state = "finished",
                                      ![s].finishes = spans[s].finishes + 1]
            /\ finished' = Append(finished, s)
            /\ UNCHANGED pending_rebalancing_spans
       ELSE IF spans[s].kind = "noop"
       THEN /\ spans' = [spans EXCEPT ![s].state = "finished"]
            /\ UNCHANGED <<pending_rebalancing_spans, finished>>
       ELSE \* a lazy span: _span_finish (lines 624-629)
            IF ~consumer_started
       THEN \* line 625: `assert self._consumer is not None`
            /\ spans' = [spans EXCEPT ![s].state = "raised AssertionError"]
            /\ UNCHANGED <<pending_rebalancing_spans, finished>>
       ELSE IF generation = DEFAULT_GENERATION_ID
       THEN \* _on_span_generation_pending
            /\ pending_rebalancing_spans' = Append(pending_rebalancing_spans, s)
            /\ spans' = [spans EXCEPT ![s].state = "pending"]
            /\ UNCHANGED finished
       ELSE /\ spans' = [spans EXCEPT ![s] = GenerationKnown(spans[s], generation)]
            /\ finished' = finished \o RealFinishes(<<s>>)
            /\ UNCHANGED pending_rebalancing_spans
    /\ UNCHANGED <<consumer_started, generation, notSpanVars>>

\* on_generation_id_known (lines 683-686): every queued span is taken; it is
\* stamped and finished when the consumer is there, and dropped otherwise
OnGenerationIdKnown ==
    /\ LET order == DrainOrder(pending_rebalancing_spans)
       IN  IF consumer_started
           THEN /\ spans' = Drained(order, spans, "known", generation)
                /\ finished' = finished \o RealFinishes(order)
           ELSE /\ spans' = Drained(order, spans, "absent", generation)
                /\ UNCHANGED finished
    /\ pending_rebalancing_spans' = <<>>
    /\ UNCHANGED <<consumer_started, generation, notSpanVars>>

\* flush_spans (lines 678-681)
FlushSpans ==
    /\ LET order == DrainOrder(pending_rebalancing_spans)
       IN  /\ spans' = Drained(order, spans, "cancel", generation)
           /\ finished' = finished \o RealFinishes(order)
    /\ pending_rebalancing_spans' = <<>>
    /\ UNCHANGED <<consumer_started, generation, notSpanVars>>

\* how often q holds x
Occurrences(q, x) == Cardinality({i \in DOMAIN q : q[i] = x})

\* the finish() calls made on a span so far: each is in the queue or has
\* led to _real_finish
FinishCalls(s) == Occurrences(pending_rebalancing_spans, s) + spans[s].finishes

\* span.finish() called again on a span made lazy: LazySpan.finish stays in
\* place of finish (line 622), so the call runs _span_finish once more
\* (lines 624-629)
SpanFinishAgain(s) ==
    /\ spans[s].kind \in {"lazy", "bare"}
    /\ spans[s].state \in {"pending", "finished", "cancelled", "dropped"}
    /\ consumer_started
    /\ FinishCalls(s) < MaxFinishCalls
    /\ IF generation = DEFAULT_GENERATION_ID
       THEN /\ pending_rebalancing_spans' = Append(pending_rebalancing_spans, s)
            /\ spans' = [spans EXCEPT ![s].state = "pending"]
            /\ UNCHANGED finished
       ELSE /\ spans' = [spans EXCEPT ![s] = GenerationKnown(spans[s], generation)]
            /\ finished' = finished \o RealFinishes(<<s>>)
            /\ UNCHANGED pending_rebalancing_spans
    /\ UNCHANGED <<consumer_started, generation, notSpanVars>>

NextSpans ==
    \/ ConsumerOnStart
    \/ CoordinatorRejoin
    \/ \E g \in Generations : CoordinatorJoined(g)
    \/ \E s \in SpanIds, name \in SpanNames, kind \in SpanKinds :
           StartSpan(s, name, kind)
    \/ \E s \in SpanIds : SpanFinish(s)
    \/ OnGenerationIdKnown
    \/ FlushSpans

(***************************************************************************)
(* The commit path against rebalances and every broker outcome.            *)
(***************************************************************************)
NextCommit ==
    \/ ConsumerOnStart
    \/ \E a \in SUBSET TPs : Rebalance(a)
    \/ \E c \in CallIds, offsets \in OffsetMaps : Commit(c, offsets)
    \/ \E c \in CallIds : CommitRun(c)
    \/ \E c \in CallIds, exc \in BrokerOutcomes : CommitReturn(c, exc)

Init ==
    /\ CommitInit /\ RebalanceInit /\ TopicInit /\ TxnInit /\ FetchInit
    /\ SpanInit /\ CreateInit /\ ThreadInit

SpecSpans == Init /\ [][NextSpans]_vars

\* lazy spans whose finish() may be called more than once
NextRefinish ==
    \/ ConsumerOnStart
    \/ CoordinatorRejoin
    \/ \E g \in Generations : CoordinatorJoined(g)
    \/ \E s \in SpanIds, name \in SpanNames : StartSpan(s, name, "lazy")
    \/ \E s \in SpanIds : SpanFinish(s)
    \/ \E s \in SpanIds : SpanFinishAgain(s)
    \/ OnGenerationIdKnown
    \/ FlushSpans

SpecRefinish == Init /\ [][NextRefinish]_vars

SpecThreaded == Init /\ [][NextThreaded]_vars

(***************************************************************************)
(* The thread loop runs every coroutine that can run, the poll's timeout   *)
(* fires, and every publish and every call of the underlying producer      *)
(* returns.                                                                *)
(***************************************************************************)
PushStep ==
    \/ PushLoop
    \/ PushTimeout
    \/ PushTake
    \/ PushPublish
    \/ PushPublished("ok")

ThreadStopStep(t) ==
    \/ ThreadStopBegin(t)
    \/ ThreadStopStopped(t)
    \/ ThreadStopPublished(t, "ok")
    \/ ThreadStopFlushed(t)
    \/ ThreadStopWaited(t)

NextThreadedLive ==
    \/ ThreadedOnStart
    \/ \E m \in MessageIds : PutEvent(m)
    \/ \E t \in ShutdownIds : ShutdownThread(t)
    \/ \E t \in ShutdownIds : ThreadStopStep(t)
    \/ PushStep

SpecThreadedLive ==
    /\ Init
    /\ [][NextThreadedLive]_vars
    /\ WF_vars(PushStep)
    /\ \A t \in ShutdownIds : WF_vars(ThreadStopStep(t))

(***************************************************************************)
(* Consumer construction under every setting of the two timeouts, of       *)
(* client_only and of in_transaction, and the life of the consumer made.   *)
(***************************************************************************)
BrokerTimeouts == 1..MaxBrokerTimeout

InitCreate ==
    /\ clock = 0
    /\ consumer_started = FALSE
    /\ time_started = None
    /\ \E session \in BrokerTimeouts, request \in BrokerTimeouts,
          client \in BOOLEAN, txn \in BOOLEAN :
          conf = [DefaultConf EXCEPT !.broker_session_timeout = session,
                                     !.broker_request_timeout = request,
                                     !.client_only = client,
                                     !.in_transaction = txn]
    /\ assigned = {}
    /\ tp_last_committed_at = [tp \in TPs |-> None]
    /\ commit_calls = [c \in CallIds |-> IdleCall]
    /\ crashed = FALSE
    /\ verify_log = NoVerify
    /\ RebalanceInit /\ TopicInit /\ TxnInit /\ FetchInit /\ SpanInit
    /\ CreateInit /\ ThreadInit

NextCreate ==
    \/ ConsumerOnStart
    \/ StopFlow
    \/ ResumeFlow
    \/ Close
    \/ OnThreadStop

SpecCreate == InitCreate /\ [][NextCreate]_vars

(***************************************************************************)
(* The config of a CreateTopics request (lines 1454-1470, 1541-1544).  A   *)
(* dict is a function from its keys; Optional[bool] is "None", "True" or   *)
(* "False"; an Optional[int] is None or a number.                          *)
(***************************************************************************)
OptionalBools == {"None", "True", "False"}
Retentions == {None} \cup (0..MaxRetention)

\* `if flag:` of an Optional[bool]
TruthyFlag(flag) == flag = "True"

\* `if retention:` of an Optional[int]
TruthyInt(n) == n # None /\ n # 0

\* the user's config argument: None, or a mapping
NoUserConfig == [given |-> FALSE, items |-> EmptyMap]
UserConfigs ==
    {NoUserConfig}
    \cup {[given |-> TRUE, items |-> m] :
            m \in {EmptyMap,
                   [k \in {"cleanup.policy"} |-> "delete"],
                   [k \in {"retention.ms"} |-> MaxRetention + 1],
                   [k \in {"min.insync.replicas"} |-> 2],
                   [k \in {"retention.ms", "min.insync.replicas"} |->
                        IF k = "retention.ms" THEN MaxRetention + 1 ELSE 2]}}

\* sorted(cleanup_flags): "compact" sorts before "delete"
SortedFlags(cleanup_flags) ==
    LET In(flag) == flag \in cleanup_flags
    IN  SelectSeq(<<"compact", "delete">>, In)

\* ",".join(words)
RECURSIVE JoinComma(_)
JoinComma(words) ==
    IF words = <<>> THEN ""
    ELSE IF Len(words) = 1 THEN Head(words)
    ELSE Head(words) \o "," \o JoinComma(Tail(words))

\* dict.update: the keys of extra replace those of base
DictUpdate(base, extra) ==
    [k \in DOMAIN base \cup DOMAIN extra |->
        IF k \in DOMAIN extra THEN extra[k] ELSE base[k]]

\* _topic_config (lines 1454-1470)
TopicConfig(retention, compacting, deleting) ==
    LET cleanup_flags ==
            (IF TruthyFlag(compacting) THEN {"compact"} ELSE {})
            \cup (IF TruthyFlag(deleting) THEN {"delete"} ELSE {})
        policy == IF cleanup_flags # {}
                  THEN [k \in {"cleanup.policy"} |->
                            JoinComma(SortedFlags(cleanup_flags))]
                  ELSE EmptyMap
        kept == IF TruthyInt(retention)
                THEN [k \in {"retention.ms"} |-> retention]
                ELSE EmptyMap
    IN  DictUpdate(policy, kept)

\* `config or {}` (line 1542)
ExtraConfigs(config) ==
    IF config.given /\ config.items # EmptyMap THEN config.items ELSE EmptyMap

\* _really_create_topic, lines 1541-1544 and the config handed to
\* CreateTopicsRequest at line 1559
BuildRequestConfig(retention, compacting, deleting, config) ==
    /\ config_call.pc = "idle"
    /\ LET synthesized == TopicConfig(retention, compacting, deleting)
       IN  config_call' = [pc |-> "built",
                           retention |-> retention,
                           compacting |-> compacting,
                           deleting |-> deleting,
                           config |-> config,
                           synthesized |-> synthesized,
                           request |-> DictUpdate(synthesized,
                                                  ExtraConfigs(config))]
    /\ UNCHANGED notConfigVars

NextConfig ==
    \E retention \in Retentions, compacting \in OptionalBools,
       deleting \in OptionalBools, config \in UserConfigs :
        BuildRequestConfig(retention, compacting, deleting, config)

SpecConfig == Init /\ [][NextConfig]_vars

SpecFetch == Init /\ [][NextFetch]_vars

SpecCommit == Init /\ [][NextCommit]_vars

(***************************************************************************)
(* The commit path against the clock and the watchdog.                     *)
(***************************************************************************)
TimedOffsetMaps == {m \in OffsetMaps : \A tp \in DOMAIN m : m[tp] = 100}
TimedOutcomes ==
    {NoExc, [cls |-> "CommitFailedError", already_rebalanced |-> TRUE],
     [cls |-> "Exception", already_rebalanced |-> FALSE]}

NextTimed ==
    \/ Tick
    \/ ConsumerOnStart
    \/ \E a \in SUBSET TPs : Rebalance(a)
    \/ \E c \in CallIds, offsets \in TimedOffsetMaps : Commit(c, offsets)
    \/ \E c \in CallIds : CommitRun(c)
    \/ \E c \in CallIds, exc \in TimedOutcomes : CommitReturn(c, exc)
    \/ \E tp \in TPs, st \in HealthyFetchStates(clock) : VerifyEventPath(tp, st)

SpecTimed == Init /\ [][NextTimed]_vars

(***************************************************************************)
(* The rebalance listener, the coordinator and record delivery.            *)
(***************************************************************************)
NextRebalance ==
    \/ ConsumerOnStart
    \/ CoordinatorRejoin
    \/ \E g \in Generations : CoordinatorJoined(g)
    \/ \E revoked \in SUBSET TPs : ListenerRevoked(revoked)
    \/ \E i \in 1..MaxRevokes : RevokeAwaited(i)
    \/ \E i \in 1..MaxRevokes : RevokeDiscarded(i)
    \/ \E assignment \in SUBSET TPs : ListenerAssigned(assignment)
    \/ \E tp \in TPs, ts \in RecordTimestamps : Deliver(tp, 100, ts)

SpecRebalance == Init /\ [][NextRebalance]_vars

(***************************************************************************)
(* The watchdog over what it can read.                                     *)
(***************************************************************************)
\* a call changes nothing but the log: each drawn state is called on once
NextWatchdog ==
    \/ /\ ~verify_log.ran
       /\ \E tp \in TPs, st \in FetchStates(clock) : VerifyEventPath(tp, st)
    \/ /\ ~verify_log.ran
       /\ \E tp \in TPs, st \in FetchStates(clock) :
              VerifyRecoveryEventPath(tp, st)

InitWatchdog ==
    /\ WatchdogInit /\ RebalanceInit /\ TopicInit /\ TxnInit /\ FetchInit
    /\ SpanInit
    /\ consumer_settings = IF consumer_started THEN CreateConsumer(conf)
                           ELSE NoConsumer
    /\ config_call = [pc |-> "idle"]
    /\ ThreadInit

SpecWatchdog == InitWatchdog /\ [][NextWatchdog]_vars

(***************************************************************************)
(* Topic creation through the consumer and the producer.                   *)
(***************************************************************************)
NextTopic ==
    \/ ConsumerOnStart
    \/ ProducerOnStart
    \/ ProducerOnStop
    \/ ConsumerOnStop
    \/ MetadataUpdate
    \/ \E c \in CreateIds, owner \in Owners, topic \in TopicNames,
          ensure_created \in BOOLEAN :
            CreateTopic(c, owner, topic, ensure_created)
    \/ \E c \in CreateIds, answer \in {"stopped", "error", "none", "controller"} :
            DiscoverReturn(c, answer)
    \/ \E c \in CreateIds, stopped \in BOOLEAN, code \in CreateCodes :
            CreateReturn(c, stopped, code)
    \/ \E c \in CreateIds : WaiterReturns(c)
    \/ \E c \in CreateIds : WaiterRaises(c)

SpecTopic == Init /\ [][NextTopic]_vars

(***************************************************************************)
(* Topic declaration with names at the length limit, with and without      *)
(* app.conf.topic_allow_declare.                                           *)
(***************************************************************************)
InitDeclare ==
    /\ clock = 0
    /\ consumer_started = FALSE
    /\ time_started = None
    /\ \E allow \in BOOLEAN :
          conf = [DefaultConf EXCEPT !.topic_allow_declare = allow]
    /\ assigned = {}
    /\ tp_last_committed_at = [tp \in TPs |-> None]
    /\ commit_calls = [c \in CallIds |-> IdleCall]
    /\ crashed = FALSE
    /\ verify_log = NoVerify
    /\ RebalanceInit /\ TopicInit /\ TxnInit /\ FetchInit /\ SpanInit
    /\ CreateInit /\ ThreadInit

NextDeclare ==
    \/ ConsumerOnStart
    \/ ProducerOnStart
    \/ MetadataUpdate
    \/ \E c \in CreateIds, owner \in Owners, topic \in LongNames :
            CreateTopic(c, owner, topic, FALSE)
    \/ \E c \in CreateIds, answer \in {"error", "none", "controller"} :
            DiscoverReturn(c, answer)
    \/ \E c \in CreateIds, code \in CreateCodes : CreateReturn(c, FALSE, code)
    \/ \E c \in CreateIds : WaiterReturns(c)
    \/ \E c \in CreateIds : WaiterRaises(c)

SpecDeclare == InitDeclare /\ [][NextDeclare]_vars

(***************************************************************************)
(* The transactional operations of the producer.                           *)
(***************************************************************************)
NextTxn ==
    \/ ProducerOnStart
    \/ ProducerOnStop
    \/ \E c \in TxnCallIds, op \in TxnOps, tid \in TxnIds : TxnCall(c, op, tid)
    \/ \E c \in TxnCallIds, op \in SendOps : TxnCall(c, op, NoTransaction)
    \/ \E c \in TxnCallIds, ok \in BOOLEAN : TxnDelivered(c, ok)
    \/ \E c \in TxnCallIds, result \in {"ok", "fenced", "error"} :
            TxnStartReturn(c, result)
    \/ \E c \in TxnCallIds : TxnAcquire(c)
    \/ \E c \in TxnCallIds, result \in {"ok", "fenced", "error"},
          start_new_transaction \in BOOLEAN :
            TxnOpReturn(c, result, start_new_transaction)
    \/ \E c \in TxnCallIds : TxnStopReturn(c)

SpecTxn == Init /\ [][NextTxn]_vars

(***************************************************************************)
(* The life of the producer of one transactional id: begun, committed or   *)
(* aborted, fenced, stopped and begun again.                               *)
(***************************************************************************)
NextTxnLife ==
    \/ ProducerOnStart
    \/ \E c \in TxnCallIds,
          op \in {"begin_transaction", "commit_transaction",
                  "abort_transaction", "stop_transaction"} :
            TxnCall(c, op, "tx1")
    \/ \E c \in TxnCallIds, result \in {"ok", "fenced"} :
            TxnStartReturn(c, result)
    \/ \E c \in TxnCallIds : TxnAcquire(c)
    \/ \E c \in TxnCallIds, result \in {"ok", "fenced"} :
            TxnOpReturn(c, result, TRUE)
    \/ \E c \in TxnCallIds : TxnStopReturn(c)

SpecTxnLife == Init /\ [][NextTxnLife]_vars

(***************************************************************************)
(* Sending through the producer over its life cycle: send and              *)
(* send_and_wait, with and without a transactional id.                     *)
(***************************************************************************)
NextSend ==
    \/ ProducerOnStart
    \/ ProducerOnStop
    \/ \E c \in TxnCallIds, op \in SendOps, tid \in {NoTransaction, "tx1"} :
            TxnCall(c, op, tid)
    \/ \E c \in TxnCallIds : TxnCall(c, "begin_transaction", "tx1")
    \/ \E c \in TxnCallIds : TxnStartReturn(c, "ok")
    \/ \E c \in TxnCallIds : TxnAcquire(c)
    \/ \E c \in TxnCallIds, result \in {"ok", "error"} :
            TxnOpReturn(c, result, TRUE)
    \/ \E c \in TxnCallIds, ok \in BOOLEAN : TxnDelivered(c, ok)

SpecSend == Init /\ [][NextSend]_vars

(***************************************************************************)
(* Claims about commit.                                                    *)
(***************************************************************************)
\* C1: when _commit runs, the offsets handed to the broker commit are exactly
\* the submitted entries whose TP is in the assignment at that moment, each
\* with its submitted offset and empty metadata; and a commit whose RPC
\* raised nothing returns true.
C1_CommitSendsAssignedOffsets ==
    [][\A c \in CallIds :
        /\ (commit_calls[c].pc = "queued" /\ commit_calls'[c].pc = "rpc") =>
              LET offsets == commit_calls[c].offsets
                  payload == commit_calls'[c].payload
              IN  /\ DOMAIN payload = DOMAIN offsets \cap assigned
                  /\ \A tp \in DOMAIN payload :
                        /\ payload[tp].offset = offsets[tp]
                        /\ payload[tp].metadata = ""
        /\ (commit_calls[c].pc = "rpc" /\ commit_calls'[c].pc = "done"
                /\ commit_calls'[c].exc = NoExc) =>
              /\ commit_calls'[c].result = TRUE
              /\ commit_calls'[c].payload = commit_calls[c].payload
      ]_vars

\* C1 witness: commit({TP(t,0):100, TP(t,1):50}) ran while only TP(t,0) was
\* assigned, sent TP(t,0):100 alone and returned true.
C1_Witness ==
    \E c \in CallIds :
        /\ commit_calls[c].pc = "done"
        /\ commit_calls[c].result = TRUE
        /\ DOMAIN commit_calls[c].offsets = TPs
        /\ commit_calls[c].offsets[TP("t", 0)] = 100
        /\ commit_calls[c].offsets[TP("t", 1)] = 50
        /\ DOMAIN commit_calls[c].payload = {TP("t", 0)}
        /\ commit_calls[c].payload[TP("t", 0)] = OffsetAndMetadata(100, "")

\* C2: commit returns true exactly when the broker commit raised nothing; a
\* CommitFailedError whose text contains "already rebalanced" gives false
\* without a crash; every other exception crashes the service with that
\* exception and gives false; no broker exception reaches the caller.
C2_CommitOutcome ==
    /\ \A c \in CallIds :
          commit_calls[c].pc = "done" =>
            LET exc == commit_calls[c].exc
                benign == exc.cls = "CommitFailedError" /\ exc.already_rebalanced
            IN  /\ commit_calls[c].result = (exc = NoExc)
                /\ commit_calls[c].raised = "none"
                /\ (exc = NoExc \/ benign) => commit_calls[c].crashed_with = NoExc
                /\ (exc # NoExc /\ ~benign) => commit_calls[c].crashed_with = exc
    /\ \A c \in CallIds :
          commit_calls[c].exc # NoExc => commit_calls[c].pc = "done"
    /\ crashed = (\E c \in CallIds : commit_calls[c].crashed_with # NoExc)

\* C2 witness: a commit whose RPC raised a CommitFailedError that is no
\* rebalance returned false and crashed the service.
C2_Witness ==
    \E c \in CallIds :
        /\ commit_calls[c].pc = "done"
        /\ commit_calls[c].exc =
              [cls |-> "CommitFailedError", already_rebalanced |-> FALSE]
        /\ commit_calls[c].result = FALSE
        /\ crashed

\* C3: while a commit is in flight, and after it succeeded,
\* tp_last_committed_at[tp] is at least the call's start time for every TP
\* of its payload; and a watchdog call made while the RPC is in flight, less
\* than the commit timeout after the call started, reports no commit stall.
C3_TimestampBeforeRpc ==
    \A c \in CallIds :
        /\ (commit_calls[c].pc = "rpc"
              \/ (commit_calls[c].pc = "done" /\ commit_calls[c].result)) =>
              \A tp \in DOMAIN commit_calls[c].payload :
                  /\ tp_last_committed_at[tp] # None
                  /\ tp_last_committed_at[tp] >= commit_calls[c].now
        /\ (/\ commit_calls[c].pc = "rpc"
            /\ verify_log.ran
            /\ verify_log.tp \in DOMAIN commit_calls[c].payload
            /\ clock - commit_calls[c].now
                  < conf.broker_commit_livelock_soft_timeout) =>
              verify_log.code \notin CommitCodes

\* C3 witness: the watchdog ran on a TP of an in-flight commit at a time when
\* the worker had been up for the commit timeout, and logged nothing.
C3_Witness ==
    \E c \in CallIds :
        /\ commit_calls[c].pc = "rpc"
        /\ verify_log.ran
        /\ verify_log.tp \in DOMAIN commit_calls[c].payload
        /\ verify_log.code = "none"
        /\ commit_calls[c].now > 0
        /\ clock - time_started >= conf.broker_commit_livelock_soft_timeout

(***************************************************************************)
(* Claims about the rebalance listener.                                    *)
(***************************************************************************)
Awaitables(state) ==
    {i \in 1..Len(revoke_awaitables) : revoke_awaitables[i].state = state}

\* C4: every on_partitions_revoked call of the listener has run the worker's
\* on_rebalance_start by the time it has returned its awaitable, whether the
\* awaitable is awaited, still pending or dropped; the worker's revoke
\* handler has run once per awaited awaitable and for no other.
C4_RebalanceStartIsSynchronous ==
    /\ rebalance_start_calls = Len(revoke_awaitables)
    /\ worker_revoked_calls = Cardinality(Awaitables("awaited"))

\* C4 witness: the awaitable of a revoke callback was dropped, the worker's
\* revoke handler never ran, and on_rebalance_start was observed.
C4_Witness ==
    /\ Awaitables("discarded") # {}
    /\ Awaitables("awaited") = {}
    /\ worker_revoked_calls = 0
    /\ rebalance_start_calls >= 1

\* C5: once on_partitions_assigned has run, every message converted for
\* delivery carries the generation that the most recent on_partitions_assigned
\* read from the coordinator; that callback recorded the generation on the
\* worker before it called the assigned handler, and passed it the same value.
C5_RecordGeneration ==
    assigned_call.ran =>
        /\ consumer_generation_id = assigned_call.generation
        /\ assigned_call.worker_generation = assigned_call.generation
        /\ delivered.ran => delivered.generation_id = assigned_call.generation

\* C5 witness: a message was converted after two assignments' worth of
\* rebalancing, while the coordinator already reports another generation.
C5_Witness ==
    /\ assigned_call.ran
    /\ delivered.ran
    /\ delivered.generation_id = assigned_call.generation
    /\ delivered.generation_id \in Generations
    /\ generation # delivered.generation_id

(***************************************************************************)
(* Claims about topic creation.                                            *)
(***************************************************************************)
\* a call is between its entry into create_topic and its return or raise
InProgress(c) == create_calls[c].pc \in {"discover", "create", "waiting"}

\* C6: at every instant, for every topic name, at most one execution of
\* _really_create_topic for that name is in flight, whatever the interleaving
\* of create_topic calls, failed attempts and consumer or producer stops.
C6_OneAttemptInFlight ==
    \A c \in CreateIds : \A d \in CreateIds :
        (c # d /\ Running(c) /\ Running(d))
            => create_calls[c].topic # create_calls[d].topic

\* C7: two create_topic calls for the same topic name that overlap in time
\* share one attempt (one wrapper, hence one CreateTopics request), and both
\* observe the outcome of that attempt.
C7_OverlappingCallsShareAttempt ==
    \A c \in CreateIds : \A d \in CreateIds :
        (/\ c # d
         /\ create_calls[c].topic = create_calls[d].topic
         /\ create_calls[c].pc \notin {"idle"}
         /\ create_calls[d].pc \notin {"idle"}
         /\ create_calls[c].wrap # NoWrap
         /\ create_calls[d].wrap # NoWrap
         /\ InProgress(c) \/ InProgress(d))
            => /\ create_calls[c].wrap = create_calls[d].wrap
               /\ create_calls[c].requests + create_calls[d].requests <= 1

Live(tid) ==
    {p \in TxnCallIds : producers[p].tid = tid /\ producers[p].state = "started"}

\* C9: at every instant there is at most one live transactional producer per
\* transactional id, and a started producer leaves the registry only by being
\* stopped.
C9_OneLiveProducerPerId ==
    \A tid \in TxnIds :
        /\ Cardinality(Live(tid)) <= 1
        /\ \A p \in Live(tid) : transaction_producers[tid] = p

\* C10: for every transactional id, at most one operation of an underlying
\* producer is in flight at any instant.
C10_OneOperationInFlightPerId ==
    \A c \in TxnCallIds : \A d \in TxnCallIds :
        (/\ c # d
         /\ txn_calls[c].pc = "op"
         /\ txn_calls[d].pc = "op"
         /\ txn_calls[c].tid \in TxnIds)
            => txn_calls[c].tid # txn_calls[d].tid

\* a call that has returned to its caller, normally or with an exception
Returned(c) == txn_calls[c].pc \in {"done", "raised"}

\* C11: whenever the underlying producer of an id raises ProducerFenced in a
\* transactional operation, then once the operation has returned the registry
\* no longer holds that producer and the producer has been stopped.
C11_FencedProducerRemovedAndStopped ==
    \A c \in TxnCallIds :
        (Returned(c) /\ txn_calls[c].fenced # NoObject)
            => /\ transaction_producers[txn_calls[c].tid] # txn_calls[c].fenced
               /\ producers[txn_calls[c].fenced].state = "stopped"

\* C12: a ProducerFenced of the underlying producer is never surfaced: the
\* operation in which it was raised returns without raising.
C12_FencedNeverSurfaced ==
    \A c \in TxnCallIds :
        txn_calls[c].fenced # NoObject => txn_calls[c].pc # "raised"

\* C13: between the first and the last operation that commit_transactions
\* runs on the producer of an id, no other operation on that id is in flight.
C13_CommitTransactionsUninterrupted ==
    \A c \in TxnCallIds : \A d \in TxnCallIds :
        (/\ c # d
         /\ txn_calls[c].op = "commit_transactions"
         /\ txn_calls[c].pc = "op"
         /\ txn_calls[d].tid = txn_calls[c].tid)
            => txn_calls[d].pc # "op"

(***************************************************************************)
(* Claims about the producer's life cycle.                                 *)
(***************************************************************************)
\* the message of a send call was handed to an underlying producer
Handed(call) == call.pc \in {"op", "delivery", "done"}

\* C14: send and send_and_wait fail with NotReady, and hand nothing to a
\* client, exactly when the producer is not started (before on_start and
\* after on_stop); while it is started, a send without transactional id is
\* handed to the producer's client.
C14_SendRequiresStarted ==
    [][\A c \in TxnCallIds :
         (/\ txn_calls[c].pc = "idle"
          /\ txn_calls'[c].pc # "idle"
          /\ txn_calls'[c].op \in SendOps)
            => IF producer_started
               THEN /\ txn_calls'[c].outcome # "NotReady"
                    /\ txn_calls'[c].tid = NoTransaction
                          => (txn_calls'[c].pc = "op" /\ txn_calls'[c].uop = "send")
               ELSE /\ txn_calls'[c].pc = "raised"
                    /\ txn_calls'[c].outcome = "NotReady"
                    /\ ~Handed(txn_calls'[c])]_vars

\* a send was accepted, the next one was refused after a stop, and a
\* send_and_wait after the restart is with the client
C14_Witness ==
    /\ txn_calls[1].op = "send" /\ txn_calls[1].tid = NoTransaction
    /\ Handed(txn_calls[1])
    /\ txn_calls[2].op \in SendOps /\ txn_calls[2].outcome = "NotReady"
    /\ txn_calls[3].op = "send_and_wait" /\ txn_calls[3].tid = NoTransaction
    /\ txn_calls[3].pc = "op"
    /\ producer_started

(***************************************************************************)
(* Claims about the watchdog.                                              *)
(***************************************************************************)
\* the call of the last step was made on a started consumer whose
\* subscription holds the partition, with a monitor installed
WatchdogRead(entry) ==
    /\ verify_log.ran
    /\ verify_log.entry = entry
    /\ consumer_started
    /\ verify_log.st.assignment = "active"
    /\ verify_log.st.has_state
    /\ verify_log.st.monitor

\* the guards of the diagnostics, by step: each reads its subject and compares
\* an age with its timeout by >=
Guard(step, now, st, started_at, cf, last_commit) ==
    LET age == now - started_at
        fetch_timeout == cf.stream_processing_timeout
        stream_timeout == cf.stream_processing_timeout
        commit_timeout == cf.broker_commit_livelock_soft_timeout
        lagging == /\ st.has_acks
                   /\ st.highwater # None /\ st.position # None
                   /\ st.highwater > st.position
    IN  CASE step = "NO_FETCH_SINCE_START" ->
               st.timestamp = None /\ age >= fetch_timeout
          [] step = "NO_RECENT_FETCH" ->
               /\ st.timestamp # None
               /\ now * 1000 - st.timestamp >= fetch_timeout * 1000
          [] step = "NO_HIGHWATER_SINCE_START" ->
               st.highwater = None /\ age >= stream_timeout
          [] step = "STREAM_IDLE_SINCE_START" ->
               lagging /\ st.inbound = None /\ age >= stream_timeout
          [] step = "STREAM_IDLE" ->
               /\ lagging /\ st.inbound # None
               /\ now - st.inbound >= stream_timeout
          [] step = "NO_COMMIT_SINCE_START" ->
               lagging /\ last_commit = None /\ age >= commit_timeout
          [] step = "NO_RECENT_COMMIT" ->
               /\ lagging /\ last_commit # None
               /\ now - last_commit >= commit_timeout

\* the steps in their order: 1, 2, 3, 4a, 4b, 4c, 4d
Steps == <<"NO_FETCH_SINCE_START", "NO_RECENT_FETCH",
           "NO_HIGHWATER_SINCE_START", "STREAM_IDLE_SINCE_START",
           "STREAM_IDLE", "NO_COMMIT_SINCE_START", "NO_RECENT_COMMIT">>

\* the diagnostic of the first step whose guard holds, "none" without one
FirstMatch(now, st, started_at, cf, last_commit) ==
    LET holds == {i \in 1..Len(Steps) :
                    Guard(Steps[i], now, st, started_at, cf, last_commit)}
    IN  IF holds = {} THEN "none"
        ELSE Steps[CHOOSE i \in holds : \A j \in holds : i <= j]

SubjectMissing(step, st) ==
    CASE step = "NO_FETCH_SINCE_START" -> st.timestamp = None
      [] step = "NO_HIGHWATER_SINCE_START" -> st.highwater = None
      [] step = "STREAM_IDLE_SINCE_START" ->
           /\ st.has_acks
           /\ st.highwater # None /\ st.position # None
           /\ st.highwater > st.position
           /\ st.inbound = None
      [] OTHER -> FALSE

\* the call ends at the first step whose guard holds or whose subject is
\* missing, and emits that step's diagnostic only when its guard holds
FirstMatchOrMissing(now, st, started_at, cf, last_commit) ==
    LET ends == {i \in 1..Len(Steps) :
                   \/ Guard(Steps[i], now, st, started_at, cf, last_commit)
                   \/ SubjectMissing(Steps[i], st)}
        first == CHOOSE i \in ends : \A j \in ends : i <= j
    IN  IF ends = {} THEN "none"
        ELSE IF Guard(Steps[first], now, st, started_at, cf, last_commit)
        THEN Steps[first]
        ELSE "none"

C16_NoCommitSinceStart ==
    LET st == verify_log.st
    IN  /\ (/\ WatchdogRead("verify_event_path")
            /\ st.timestamp # None
            /\ clock * 1000 - st.timestamp < conf.stream_processing_timeout * 1000
            /\ st.has_acks
            /\ st.highwater # None /\ st.position # None
            /\ st.highwater > st.position
            /\ st.inbound # None
            /\ clock - st.inbound < conf.stream_processing_timeout
            /\ tp_last_committed_at[verify_log.tp] = None
            /\ clock - time_started >= conf.broker_commit_livelock_soft_timeout)
              => /\ verify_log.code = "NO_COMMIT_SINCE_START"
                 /\ verify_log.detail =
                      [setting |-> "broker_commit_livelock_soft_timeout",
                       current_value |-> conf.broker_commit_livelock_soft_timeout,
                       causes |-> <<"SLOW_PROCESSING_CAUSE_COMMIT">>]
        /\ (verify_log.ran /\ verify_log.code \in StreamCodes)
              => verify_log.detail =
                   [setting |-> "stream_processing_timeout",
                    current_value |-> conf.stream_processing_timeout,
                    causes |-> <<"SLOW_PROCESSING_CAUSE_STREAM",
                                 "SLOW_PROCESSING_CAUSE_AGENT">>]

\* highwater 100, committed 50, inbound now, nothing committed, started the
\* commit timeout ago or earlier
C16_Witness ==
    /\ WatchdogRead("verify_event_path")
    /\ verify_log.st.highwater = 100 /\ verify_log.st.position = 50
    /\ verify_log.st.inbound = clock
    /\ tp_last_committed_at[verify_log.tp] = None
    /\ clock - time_started >= conf.broker_commit_livelock_soft_timeout
    /\ verify_log.code = "NO_COMMIT_SINCE_START"
    /\ verify_log.detail.setting = "broker_commit_livelock_soft_timeout"

Raises(code) == code \in {"raise ConsumerNotStarted", "raise AttributeError"}

FetchCodes == {"NO_FETCH_SINCE_START", "NO_RECENT_FETCH"}
RecoveryCodes == FetchCodes \cup {"NO_HIGHWATER_SINCE_START"}

\* C18 as stated: verify_recovery_event_path emits the diagnostic of
\* verify_event_path when that is one of steps 1 to 3, "highwater not
\* available" included, and nothing otherwise.
C18_RecoveryRunsStepsOneToThree ==
    WatchdogRead("verify_recovery_event_path")
        => LET full == VerifyEventPathCode(clock, verify_log.st, time_started,
                                           conf,
                                           tp_last_committed_at[verify_log.tp])
           IN  verify_log.code = IF full \in RecoveryCodes THEN full
                                 ELSE "none"

\* C18, amended: on a started consumer verify_recovery_event_path evaluates
\* the assignment check and steps 1 and 2 only: it logs what
\* verify_event_path logs when that is "No active partitions", "no fetch
\* since start" or "no recent fetch", and nothing otherwise; it never reads
\* the highwater.
C18_RecoveryRunsStepsOneAndTwo ==
    (verify_log.ran /\ verify_log.entry = "verify_recovery_event_path"
        /\ consumer_started)
        => LET full == VerifyEventPathCode(clock, verify_log.st, time_started,
                                           conf,
                                           tp_last_committed_at[verify_log.tp])
           IN  verify_log.code =
                 IF full \in FetchCodes \cup {"NO_ACTIVE_PARTITIONS"}
                 THEN full ELSE "none"

\* fetching is healthy, the highwater is unknown and the stream timeout has
\* passed since the start: the recovery entry logs nothing where
\* verify_event_path logs "highwater not available"
C18_Witness ==
    /\ WatchdogRead("verify_recovery_event_path")
    /\ verify_log.st.highwater = None
    /\ clock - time_started >= conf.stream_processing_timeout
    /\ VerifyEventPathCode(clock, verify_log.st, time_started, conf,
                           tp_last_committed_at[verify_log.tp])
         = "NO_HIGHWATER_SINCE_START"
    /\ verify_log.code = "none"

(***************************************************************************)
(* Claims about fetching.                                                  *)
(***************************************************************************)
\* the request of call c is dequeued in this step
Dequeued(c) ==
    getmany_calls[c].pc = "queued" /\ getmany_calls'[c].pc # "queued"

\* C19 as stated: every get_many request that runs while the consumer or
\* its fetcher is closed fails with ConsumerStopped and fetches nothing,
\* whether the flow is active or paused.
C19_ClosedAlwaysConsumerStopped ==
    [][\A c \in GetmanyIds :
         (Dequeued(c) /\ (consumer_closed \/ fetcher_closed))
            => /\ getmany_calls'[c].pc = "raised"
               /\ getmany_calls'[c].outcome = "ConsumerStopped"
               /\ ~getmany_calls'[c].asked]_vars

\* C19, amended: a get_many request that runs while the consumer or its
\* fetcher is closed fetches nothing; it fails with ConsumerStopped when the
\* flow is active and returns the empty map when the flow is paused.
C19_ClosedConsumerStoppedWhenFlowActive ==
    [][\A c \in GetmanyIds :
         (Dequeued(c) /\ (consumer_closed \/ fetcher_closed))
            => /\ ~getmany_calls'[c].asked
               /\ fetch_context' = fetch_context
               /\ flow_active
                    => /\ getmany_calls'[c].pc = "raised"
                       /\ getmany_calls'[c].outcome = "ConsumerStopped"
               /\ ~flow_active
                    => /\ getmany_calls'[c].pc = "done"
                       /\ getmany_calls'[c].outcome = "empty"]_vars

\* a request failed with ConsumerStopped on a closed consumer, and another
\* returned the empty map on it without fetching
C19_Witness ==
    /\ consumer_closed
    /\ \E c \in GetmanyIds :
           /\ getmany_calls[c].pc = "raised"
           /\ getmany_calls[c].outcome = "ConsumerStopped"
    /\ \E c \in GetmanyIds :
           /\ getmany_calls[c].pc = "done"
           /\ getmany_calls[c].outcome = "empty"
           /\ ~getmany_calls[c].asked

\* C20: a get_many request dequeued while the flow is paused returns the
\* empty record map without entering the fetch context and without asking
\* the fetcher for records.
C20_PausedReturnsEmpty ==
    [][\A c \in GetmanyIds :
         (Dequeued(c) /\ ~flow_active)
            => /\ getmany_calls'[c].pc = "done"
               /\ getmany_calls'[c].outcome = "empty"
               /\ ~getmany_calls'[c].asked
               /\ fetch_context' = fetch_context
               /\ c \notin fetch_context']_vars

\* on an open consumer with the flow paused a request returned the empty map
\* without a fetch, while no request is inside the fetch context
C20_Witness ==
    /\ consumer_started /\ ~consumer_closed /\ ~fetcher_closed
    /\ ~flow_active
    /\ fetch_context = {}
    /\ \E c \in GetmanyIds :
           /\ getmany_calls[c].pc = "done"
           /\ getmany_calls[c].outcome = "empty"
           /\ ~getmany_calls[c].asked

(***************************************************************************)
(* Claims about the results of topic creation.                             *)
(***************************************************************************)
\* call c enters create_topic in this step, on a started owner, and finds no
\* wrapper for its topic
StartsAttempt(c) ==
    /\ create_calls[c].pc = "idle"
    /\ create_calls'[c].pc # "idle"
    /\ create_calls'[c].outcome \notin {"ConsumerNotStarted", "NotReady",
                                       "disabled", "ValueError"}
    /\ topic_waiters[create_calls'[c].topic] = NoWrap

\* what the claim has a call make of an existing topic
ExistingTopicResult(call) ==
    IF call.ensure_created
    THEN call.pc = "raised" /\ call.outcome = "TopicAlreadyExistsError"
    ELSE call.pc = "returned" /\ call.outcome = "ok"

\* C21: create_topic on an existing topic succeeds silently without
\* ensure_created and fails with "already exists" with it, whether the topic
\* is found in the client's cluster metadata or the broker answers with the
\* topic-exists code; code 0 is success and another code raises the broker's
\* typed error (NotController is the subject of C22).
C21_ExistingTopic ==
    /\ [][\A c \in CreateIds :
            (StartsAttempt(c) /\ create_calls'[c].topic \in cluster_topics)
                => ExistingTopicResult(create_calls'[c])]_vars
    /\ [](\A c \in CreateIds :
            /\ create_calls[c].code = "TopicExists"
                 => ExistingTopicResult(create_calls[c])
            /\ create_calls[c].code = "0"
                 => create_calls[c].pc = "returned"
            /\ create_calls[c].code = "InvalidPartitions"
                 => /\ create_calls[c].pc = "raised"
                    /\ create_calls[c].outcome = "InvalidPartitionsError")

\* C22: a NotController answer is followed by a new controller discovery and
\* a second CreateTopics request within the same create_topic call; the call
\* does not end with an error on that answer.
C22_NotControllerRetried ==
    \A c \in CreateIds :
        create_calls[c].code = "NotController"
            => /\ create_calls[c].pc # "raised"
               /\ create_calls[c].requests >= 2

\* the error of the length check
InvalidTopicName(exc) == exc = "ValueError"

\* C23: create_topic with a name longer than 249 fails with the error of the
\* length check before any broker request is sent and without a waiter entry,
\* through the consumer and through the producer; a name of length 249
\* passes the check.
C23_LongNameRejected ==
    \A c \in CreateIds :
        LET call == create_calls[c]
        IN  (/\ call.pc # "idle"
             /\ call.outcome \notin {"ConsumerNotStarted", "NotReady",
                                     "disabled"})
              => IF Len(call.topic) > TOPIC_LENGTH_MAX
                 THEN /\ call.pc = "raised"
                      /\ InvalidTopicName(call.outcome)
                      /\ call.requests = 0
                      /\ call.wrap = NoWrap
                 ELSE ~InvalidTopicName(call.outcome)

(***************************************************************************)
(* Claims about the life of a transactional producer.                      *)
(***************************************************************************)
\* call c looks its id up in the registry in this step: at its entry when it
\* does not have to wait for the lock, or when it gets the lock
LooksUp(c) ==
    \/ /\ txn_calls[c].pc = "idle"
       /\ txn_calls'[c].pc \notin {"idle", "acquire"}
    \/ /\ txn_calls[c].pc = "acquire"
       /\ txn_calls'[c].pc # "acquire"

\* C24: commit_transaction(id) and abort_transaction(id) for an id without a
\* registered producer log a warning and do nothing else: no operation of an
\* underlying producer begins, the registry and the producers stay as they
\* are, and the call returns without raising.
C24_UnknownIdIsNoOp ==
    [][\A c \in TxnCallIds :
         (/\ txn_calls'[c].op \in {"commit_transaction", "abort_transaction"}
          /\ LooksUp(c)
          /\ transaction_producers[txn_calls'[c].tid] = NoObject)
            => /\ txn_calls'[c].pc = "done"
               /\ txn_calls'[c].outcome \in {"unknown", "KeyError"}
               /\ txn_calls'[c].uop = "none"
               /\ transaction_producers' = transaction_producers
               /\ producers' = producers
               /\ \A d \in TxnCallIds :
                     txn_calls'[d].pc = "op" => txn_calls[d].pc = "op"]_vars

\* a commit or abort returned on an id that stop_transaction had removed, and
\* another on an id that was never begun
C24_Witness ==
    /\ transaction_producers["tx1"] = NoObject
    /\ \E c \in TxnCallIds :
          /\ txn_calls[c].op \in {"commit_transaction", "abort_transaction"}
          /\ txn_calls[c].pc = "done"
          /\ txn_calls[c].outcome = "unknown"
    /\ \E d \in TxnCallIds :
          /\ txn_calls[d].op = "stop_transaction"
          /\ txn_calls[d].pc = "done"
          /\ txn_calls[d].prod # NoObject

\* stop_transaction has removed and stopped producer p
StoppedByStopTransaction(p) ==
    /\ producers[p].state = "stopped"
    /\ \E d \in TxnCallIds :
          /\ txn_calls[d].op = "stop_transaction"
          /\ txn_calls[d].pc = "done"
          /\ txn_calls[d].prod = p

\* call c begins an operation of an underlying transactional producer in
\* this step
Issues(c) ==
    /\ txn_calls'[c].pc = "op"
    /\ txn_calls'[c].tid \in TxnIds
    /\ txn_calls'[c].prod # NoObject
    /\ txn_calls[c].pc # "op" \/ txn_calls[c].uop # txn_calls'[c].uop

\* C25: stop_transaction(id) removes the registry entry of the id and stops
\* its producer (nothing happens for an unknown id); a begin_transaction(id)
\* that finds the id removed creates a new producer; no operation is issued
\* on a producer that stop_transaction has stopped.
C25_NoOperationAfterStopTransaction ==
    /\ [][\A c \in TxnCallIds :
            /\ (/\ txn_calls[c].pc = "idle"
                /\ txn_calls'[c].pc # "idle"
                /\ txn_calls'[c].op = "stop_transaction")
                  => /\ transaction_producers'[txn_calls'[c].tid] = NoObject
                     /\ transaction_producers[txn_calls'[c].tid] = NoObject
                          => /\ txn_calls'[c].pc = "done"
                             /\ producers' = producers
            /\ (/\ txn_calls[c].pc = "idle"
                /\ txn_calls'[c].pc # "idle"
                /\ txn_calls'[c].op = "begin_transaction"
                /\ transaction_producers[txn_calls'[c].tid] = NoObject)
                  => /\ txn_calls'[c].pc = "starting"
                     /\ txn_calls'[c].prod = c
                     /\ producers[c].state = "none"
            /\ Issues(c) => ~StoppedByStopTransaction(txn_calls'[c].prod)]_vars
    /\ [](\A c \in TxnCallIds :
            (/\ txn_calls[c].op = "stop_transaction"
             /\ txn_calls[c].pc = "done"
             /\ txn_calls[c].prod # NoObject)
               => producers[txn_calls[c].prod].state = "stopped")

(***************************************************************************)
(* Claims about closing the consumer.                                      *)
(***************************************************************************)
\* C26: close() is idempotent: after any number of calls the closed flag is
\* set and the client close and the coordinator close have each been
\* scheduled once; on a consumer that was never started close() does nothing.
C26_CloseIdempotent ==
    /\ closes_scheduled.client <= 1
    /\ closes_scheduled.coordinator <= 1
    /\ ~consumer_started
         => /\ ~consumer_closed
            /\ closes_scheduled = [client |-> 0, coordinator |-> 0]

(***************************************************************************)
(* Rebalancing spans.                                                      *)
(***************************************************************************)
\* a span that has an operation name and whose finish() is _span_finish
LazySpan(s) == spans[s].kind = "lazy"

\* the span as _on_span_generation_known leaves it
Stamped(after, before, gen) ==
    /\ after.trace_id = <<"murmur2", "reb-", AppId, "-", gen>>
    /\ {<<"kafka_generation", gen>>, <<"kafka_member_id", MemberId>>,
        <<"kafka_coordinator_id", CoordinatorId>>} \subseteq after.tags
    /\ after.operation_name =
           IF before.operation_name = "join.REPLACE_WITH_MEMBER_ID"
           THEN "rebalancing node m1"
           ELSE before.operation_name
    /\ after.finishes = before.finishes + 1

\* the lazy spans of the queue, in queue order
QueuedLazy ==
    SelectSeq(pending_rebalancing_spans, LazySpan)

C28_FlushCancelsInOrder ==
    /\ [][FlushSpans =>
            /\ pending_rebalancing_spans' = <<>>
            /\ finished' = finished \o QueuedLazy
            /\ \A s \in Range(QueuedLazy) :
                   /\ spans'[s].operation_name
                          = spans[s].operation_name \o " (CANCELLED)"
                   /\ spans'[s].finishes = spans[s].finishes + 1
                   /\ spans'[s].trace_id = <<>>
                   /\ spans'[s].tags = spans[s].tags]_vars
    /\ [][\A s \in SpanIds :
            spans[s].state = "cancelled" => spans'[s] = spans[s]]_vars
    /\ [](\A s \in SpanIds :
            spans[s].state = "cancelled" =>
                /\ spans[s].finishes = 1
                /\ \A i \in DOMAIN pending_rebalancing_spans :
                       pending_rebalancing_spans[i] # s)

\* two queued spans were cancelled, and the generation became known and
\* on_generation_id_known finished a later span
C28_Witness ==
    /\ NumSpans >= 2
    /\ spans[1].state = "cancelled"
    /\ spans[1].operation_name = "join.REPLACE_WITH_MEMBER_ID (CANCELLED)"
    /\ spans[2].state = "cancelled"
    /\ finished = <<1, 2>>
    /\ generation # DEFAULT_GENERATION_ID

(***************************************************************************)
(* Consumer construction.                                                  *)
(***************************************************************************)
\* on_start has run _create_consumer
Constructed == consumer_settings # NoConsumer

\* construction failed with ImproperlyConfigured and no consumer was made
FailedImproperlyConfigured ==
    /\ consumer_settings.outcome = "ImproperlyConfigured"
    /\ ~consumer_started

\* construction went through with auto commit off and the isolation level
\* of the transaction flag
ProceededAsWorker ==
    /\ consumer_settings.outcome = "created"
    /\ consumer_started
    /\ consumer_settings.kwargs.enable_auto_commit = FALSE
    /\ "isolation_level" \in DOMAIN consumer_settings.kwargs
    /\ consumer_settings.kwargs.isolation_level = "read_committed"
           <=> conf.in_transaction

\* C29 as stated: construction fails with ImproperlyConfigured whenever
\* broker_session_timeout > broker_request_timeout, and otherwise goes through
\* with enable_auto_commit false and isolation level read_committed iff the
\* consumer is transactional.
C29_ConstructionChecksTimeouts ==
    Constructed =>
        IF conf.broker_session_timeout > conf.broker_request_timeout
        THEN FailedImproperlyConfigured
        ELSE ProceededAsWorker

\* C29, amended: the same of a consumer that is not client-only.
C29_WorkerConstructionChecksTimeouts ==
    Constructed /\ ~conf.client_only =>
        IF conf.broker_session_timeout > conf.broker_request_timeout
        THEN FailedImproperlyConfigured
        ELSE ProceededAsWorker

\* a transactional worker consumer was made with equal timeouts
C29_Witness ==
    /\ ~conf.client_only
    /\ conf.in_transaction
    /\ conf.broker_session_timeout = conf.broker_request_timeout
    /\ consumer_started
    /\ consumer_settings.outcome = "created"
    /\ consumer_settings.kwargs.isolation_level = "read_committed"

(***************************************************************************)
(* The config of a CreateTopics request.                                   *)
(***************************************************************************)
\* the cleanup.policy of the synthesized config is the one of the two flags
PolicyOfFlags(call) ==
    LET compact == call.compacting = "True"
        delete == call.deleting = "True"
        syn == call.synthesized
    IN  IF compact /\ delete
        THEN "cleanup.policy" \in DOMAIN syn
             /\ syn["cleanup.policy"] = "compact,delete"
        ELSE IF compact
        THEN "cleanup.policy" \in DOMAIN syn
             /\ syn["cleanup.policy"] = "compact"
        ELSE IF delete
        THEN "cleanup.policy" \in DOMAIN syn
             /\ syn["cleanup.policy"] = "delete"
        ELSE "cleanup.policy" \notin DOMAIN syn

\* every key of the user's config has the user's value in the request, and
\* every other key of the request its synthesized value
UserConfigOverlays(call) ==
    /\ \A k \in DOMAIN call.config.items :
           k \in DOMAIN call.request /\ call.request[k] = call.config.items[k]
    /\ \A k \in DOMAIN call.request \ DOMAIN call.config.items :
           k \in DOMAIN call.synthesized
           /\ call.request[k] = call.synthesized[k]

\* C30: the synthesized config has cleanup.policy "compact", "delete" or
\* "compact,delete" by the two flags and no such key when neither is set;
\* retention.ms is there iff a retention is given; and every key of the
\* user's config overrides the synthesized value in the request.
C30_TopicConfig ==
    config_call.pc = "built" =>
        /\ PolicyOfFlags(config_call)
        /\ ("retention.ms" \in DOMAIN config_call.synthesized
                <=> config_call.retention # None)
        /\ UserConfigOverlays(config_call)

(***************************************************************************)
(* Claims about the thread-isolated producer.                              *)
(***************************************************************************)
\* the on_thread_stop coroutines that were scheduled
ScheduledStops == {t \in ShutdownIds : thread_stops[t].pc # "none"}

\* C31: however often _shutdown_thread is called, on_thread_stop is scheduled
\* and run at most once, and the underlying producer is flushed by it and
\* stopped at most once.
C31_TeardownAtMostOnce ==
    /\ Cardinality(ScheduledStops) <= 1
    /\ threaded.stops <= 1

\* C32: with one _shutdown_thread call, once stop() of the underlying
\* producer is called every message put before stopped was set has been
\* handed to the producer's send, and no message is handed to it after its
\* stop() was called.
C32_DrainedBeforeStop ==
    threaded.shutdown_calls <= 1 =>
        /\ threaded.stops > 0 =>
               \A m \in MessageIds :
                   messages[m].put = "before stopped" => messages[m].sends > 0
        /\ \A m \in MessageIds : ~messages[m].sent_after_stop

\* C38: every message put on the queue is handed to the underlying producer
\* at most once, by the push task or by a flush and never by both.
C38_HandedAtMostOnce ==
    \A m \in MessageIds :
        /\ messages[m].sends <= 1
        /\ messages[m].sends = 1 =>
               /\ messages[m].put # "no"
               /\ \A i \in DOMAIN event_queue : event_queue[i] # m

\* the push task handed over one message and the flush of on_thread_stop the
\* other
C38_Witness ==
    /\ NumMessages >= 2
    /\ messages[1].sends = 1 /\ messages[1].by = "push"
    /\ messages[2].sends = 1 /\ messages[2].by = "flush"
    /\ \E t \in ShutdownIds : thread_stops[t].pc = "done"

\* the push task, if there is one, has ended, and so has every
\* on_thread_stop that was scheduled
AllEnded ==
    /\ push_task.pc \in {"none", "done"}
    /\ \A t \in ShutdownIds : thread_stops[t].pc \in {"none", "done"}

ReturnsSilently(c) ==
    /\ create_calls'[c].pc = "returned"
    /\ create_calls'[c].outcome = "ok"
    /\ create_calls'[c].requests = create_calls[c].requests
    /\ create_calls'[c].code = "none"

C35_AllStoppedAfterOnStop ==
    [][ProducerOnStop /\ producer_started =>
          /\ \A p \in DOMAIN producers : producers'[p].state # "started"
          /\ \A i \in TxnIds : transaction_producers'[i] = NoObject]_vars

(***************************************************************************)
(* The value returned by _verify_aiokafka_event_path.                      *)
(***************************************************************************)
\* C36: on a started consumer _verify_aiokafka_event_path returns True
\* exactly when it logged an error in that call, so that verify_event_path
\* skips the highwater, stream and commit checks only when a fetch-level
\* error was logged.
C36_ReturnsTrueIffLogged ==
    (verify_log.ran /\ consumer_started) =>
        LET fetch == VerifyAiokafkaEventPath(clock, verify_log.st,
                                             time_started, conf)
        IN  /\ fetch.ret <=> fetch.code # "none"
            /\ verify_log.entry = "verify_event_path" =>
                 (verify_log.code =
                    IF fetch.code # "none" THEN fetch.code
                    ELSE VerifyStreamAndCommit(clock, verify_log.st,
                                               time_started, conf,
                                               tp_last_committed_at[verify_log.tp]))

(***************************************************************************)
(* The commit timestamps of a failing commit.                              *)
(***************************************************************************)
\* the commit call c has returned False: the RPC raised
CommitFailed(c) == commit_calls[c].pc = "done" /\ ~commit_calls[c].result

C39_FinalizedAtMostOnce ==
    /\ [](\A s \in SpanIds :
            LazySpan(s) => /\ spans[s].finishes <= 1
                           /\ Occurrences(finished, s) <= 1)
    /\ [][(OnGenerationIdKnown \/ FlushSpans) =>
            /\ pending_rebalancing_spans' = <<>>
            /\ \A s \in Range(QueuedLazy) :
                   spans'[s].finishes = spans[s].finishes + 1]_vars

(***************************************************************************)
(* The watchdog without an active assignment.                              *)
(***************************************************************************)
\* C40: on a started consumer whose subscription has no assignment, or an
\* assignment that is not active, verify_event_path and
\* verify_recovery_event_path log the "No active partitions" error, once and
\* without the explanation block of the slow-processing diagnostics, at any
\* age of the worker, and none of the fetch, highwater, stream and commit
\* diagnostics.
C40_NoActivePartitionsEveryTick ==
    (/\ verify_log.ran
     /\ consumer_started
     /\ verify_log.st.assignment # "active") =>
        /\ verify_log.code = "NO_ACTIVE_PARTITIONS"
        /\ verify_log.detail = NoDetail

\* C40 witness: verify_event_path ran on an inactive assignment that holds a
\* lagging partition never polled and without highwater, on a worker as old
\* as the timeouts, and logged the no-active-partitions error.
C40_Witness ==
    /\ verify_log.ran
    /\ consumer_started
    /\ verify_log.entry = "verify_event_path"
    /\ verify_log.st.assignment = "inactive"
    /\ verify_log.st.has_state
    /\ verify_log.st.timestamp = None
    /\ verify_log.st.highwater = None
    /\ clock - time_started >= conf.stream_processing_timeout
    /\ verify_log.code = "NO_ACTIVE_PARTITIONS"

====
